---- MODULE Spec2Model ----
(***************************************************************************)
(* Model of the TradeTracker analytics code (React components computing    *)
(* trading statistics from a list of closed trades).                       *)
(*                                                                         *)
(* Conventions                                                             *)
(*   - money is an integer number of mills (1/1000 of the account          *)
(*     currency), so that rounding to cents is a real operation;           *)
(*   - instants are integer hours since local midnight of 2022-01-01       *)
(*     (a Saturday) in a fixed-offset time zone;                           *)
(*   - a JavaScript number that results from a division is an extended     *)
(*     rational <<n, d>>: d > 0 is the finite value n/d in lowest terms,   *)
(*     <<1,0>> is +Infinity, <<-1,0>> is -Infinity and <<0,0>> is NaN.     *)
(*     Binary rounding error and the sign of zero are not modelled.        *)
(***************************************************************************)
EXTENDS Integers, Sequences, FiniteSets, TLC

VARIABLES trades, initialBalance, timezoneOffset, now,
          metrics, chartData, riskData,
          dailyData, maeMfe, duration,
          riskMetrics, recommendation,
          periodsData, profits,
          growthData, drawdownTable, additionalMetrics, lossLevels,
          symbolData, dashboard, tradeHistory,
          newsCalendar, openPositions, aiSidePanel

inputs == <<trades, initialBalance, timezoneOffset, now>>

vars == <<trades, initialBalance, timezoneOffset, now,
          metrics, chartData, riskData,
          dailyData, maeMfe, duration,
          riskMetrics, recommendation,
          periodsData, profits,
          growthData, drawdownTable, additionalMetrics, lossLevels,
          symbolData, dashboard, tradeHistory,
          newsCalendar, openPositions, aiSidePanel>>

pageOutputs == <<metrics, chartData, riskData, dailyData, maeMfe, duration>>
riskOutputs == <<riskMetrics, recommendation>>
periodOutputs == <<periodsData, profits>>
detailOutputs == <<growthData, drawdownTable, additionalMetrics, lossLevels>>
\* the state of the components outside the statistics panels
componentState == <<symbolData, dashboard, tradeHistory,
                    newsCalendar, openPositions, aiSidePanel>>

\* the value of a memo that has not been computed yet
Null == [null |-> TRUE]

\* JavaScript booleans held in a variable that may also be null
JsNull == "null"
JsTrue == "true"
JsFalse == "false"
JsBool(b) == IF b THEN JsTrue ELSE JsFalse

----
(* Numbers *)

Abs(x) == IF x < 0 THEN -x ELSE x

Sgn(x) == IF x > 0 THEN 1 ELSE IF x < 0 THEN -1 ELSE 0

RECURSIVE Gcd(_, _)
Gcd(a, b) == IF b = 0 THEN a ELSE Gcd(b, a % b)

Rat(n, d) ==
    IF d = 0 THEN <<Sgn(n), 0>>
    ELSE LET g == Gcd(Abs(n), Abs(d))
         IN  <<Sgn(d) * (n \div g), Abs(d) \div g>>

Num(n) == <<n, 1>>
NaN == <<0, 0>>
PosInf == <<1, 0>>
NegInf == <<-1, 0>>

IsNaN(a) == a = NaN
IsFinite(a) == a[2] > 0

RMul(a, b) == Rat(a[1] * b[1], a[2] * b[2])

RInv(a) == Rat(a[2], a[1])

RDiv(a, b) == RMul(a, RInv(b))

RNeg(a) == <<-a[1], a[2]>>

RAdd(a, b) ==
    IF a[2] = 0 /\ b[2] = 0
    THEN IF a = b THEN a ELSE NaN
    ELSE Rat(a[1] * b[2] + b[1] * a[2], a[2] * b[2])

RSub(a, b) == RAdd(a, RNeg(b))

RAbs(a) == <<Abs(a[1]), a[2]>>

RLt(a, b) ==
    IF IsNaN(a) \/ IsNaN(b) THEN FALSE
    ELSE IF a[2] = 0 /\ b[2] = 0 THEN a[1] < b[1]
    ELSE a[1] * b[2] < b[1] * a[2]

RGt(a, b) == RLt(b, a)

RLe(a, b) == ~IsNaN(a) /\ ~IsNaN(b) /\ ~RLt(b, a)

RGe(a, b) == RLe(b, a)

\* Math.min(a, b): NaN if either argument is NaN
MathMin(a, b) == IF IsNaN(a) \/ IsNaN(b) THEN NaN ELSE IF RLt(b, a) THEN b ELSE a

\* Math.max(a, b): NaN if either argument is NaN
MathMax(a, b) == IF IsNaN(a) \/ IsNaN(b) THEN NaN ELSE IF RGt(b, a) THEN b ELSE a

\* Math.floor: an infinity and NaN are returned as they are
RFloor(a) == IF a[2] = 0 THEN a ELSE Num(a[1] \div a[2])

\* a % b for a finite a and a positive integer b: the remainder has the sign
\* of a
RRem(a, b) ==
    LET q == RDiv(a, Num(b))
        truncated == IF RLt(q, Num(0)) THEN -((-q[1]) \div q[2]) ELSE q[1] \div q[2]
    IN  RSub(a, Num(b * truncated))

\* Math.ceil: an infinity and NaN are returned as they are
RCeil(a) == IF a[2] = 0 THEN a ELSE Num(-((-a[1]) \div a[2]))

\* Math.pow(base, exp) for 0 <= base and 0 <= exp is kept as its two
\* arguments and read through them (a power of a fraction does not fit the
\* integers, and a fractional power is not a fraction at all)
Pow(base, exp) == [base |-> base, exp |-> exp]

\* pow(x, NaN) is NaN, pow(NaN, y) is NaN unless y = 0, pow(1, Infinity) is NaN
PowIsNaN(p) ==
    \/ IsNaN(p.exp)
    \/ IsNaN(p.base) /\ p.exp # Num(0)
    \/ p.base = Num(1) /\ p.exp = PosInf

\* pow(x, 0) = 1 for every x, pow(1, y) = 1, pow(Infinity, y) is Infinity
PowIsAtLeastOne(p) ==
    /\ ~PowIsNaN(p)
    /\ p.exp = Num(0) \/ RGe(p.base, Num(1))

\* pow(0, y) = 0 for y > 0 and pow(x, Infinity) = 0 for 0 <= x < 1
PowIsZero(p) ==
    /\ ~PowIsNaN(p)
    /\ ~PowIsAtLeastOne(p)
    /\ p.base = Num(0) \/ p.exp = PosInf

\* pow(a.base, a.exp) <= pow(b.base, b.exp), decided for equal bases and
\* whenever one side is 0 or 1
PowLe(a, b) ==
    /\ ~PowIsNaN(a)
    /\ ~PowIsNaN(b)
    /\ \/ PowIsZero(a)
       \/ PowIsAtLeastOne(b) /\ RLe(a.base, Num(1))
       \/ /\ ~PowIsAtLeastOne(a)
          /\ ~PowIsZero(b)
          /\ RLe(a.base, b.base)
          /\ RGe(a.exp, b.exp)

\* Math.round(x * 100) / 100 on a money amount held in mills
Round2(m) == 10 * ((m + 5) \div 10)

----
(* Inputs *)

MaxTrades == 3

NetProfits == {-50, -4, 0, 4, 100}
Times == {20, 30}
Balances == {1000, 0, -100}
TimezoneOffsets == {0, 7}

OrderProfits == {-50, 100}
OrderBalances == {1000}

MaxRuinTrades == 3
\* losses of 5000.000 and 2500.000, a flat trade and a win of 5000.000
RuinProfits == {-5000000, -2500000, 0, 5000000}

\* a Saturday evening and a Monday evening
TallyTimes == {20, 68}

MaxPeriodTrades == 1

PeriodProfits == {-50, 100}

\* the account's starting balance: 10000.000 and 1.000
PeriodBalances == {10000000, 1000}

\* Sunday 2024-03-03 06:00, Monday 2024-01-01 00:00, Wednesday 2023-03-01 18:00
Nows == {19014, 17520, 10194}

\* how far around now, in days, exit times are drawn at noon and midnight
DaysBack == 2
DaysAhead == 1

\* days before today at which further exit times are drawn (week, month and
\* year boundaries of the instants above, and the days around them)
FarDays == {6, 7, 9, 13, 14, 28, 29, 31, 32, 59, 62, 365, 366, 424, 427}

PeriodTimes(n) ==
    {t \in (n - DaysBack * 24)..(n + DaysAhead * 24) : t % 12 = 0}
        \cup {((n \div 24) - d) * 24 : d \in FarDays}

Trade(t, p) == [time |-> t, net_profit |-> p, type |-> "BUY"]

\* a trade with the further fields that the pip, duration and hold-time
\* figures read; entry_time is optional: <<>> when the trade has none
DetailedTrade(t, p, v, s, e) ==
    [time |-> t, net_profit |-> p, volume |-> v, symbol |-> s, entry_time |-> e,
     type |-> "BUY"]

TradeLists(T, P, n) ==
    UNION {[1..k -> {Trade(t, p) : t \in T, p \in P}] : k \in 0..n}

ListsOver(S, n) == UNION {[1..k -> S] : k \in 0..n}

MaxTallyTrades == 2
TallyProfits == {-50, 0, 100}
\* one lot of a currency pair with no entry_time recorded, and one trade
\* whose entry at hour 18 is recorded
TallyTrades ==
    {DetailedTrade(t, p, 1, "EURUSD", <<>>) : t \in TallyTimes, p \in TallyProfits}
        \cup {DetailedTrade(68, 100, 1, "EURUSD", <<18>>)}

MaxValidateTrades == 2
\* exit at hour 20; no lot or one lot; entry not recorded, at hour 10 or at
\* hour 30
ValidateTrades ==
    {DetailedTrade(20, p, v, s, e) :
        p \in {-50, 100}, v \in {0, 1}, s \in {"EURUSD", "XAUUSD"},
        e \in {<<>>, <<10>>, <<30>>}}

\* values that Math.random() can return: 0 and 0.5
\* trades of both sides in two symbols
MaxSideTrades == 3
SideTrades ==
    [time : {20}, net_profit : {-50, 100}, volume : {1},
     symbol : {"EURUSD", "XAUUSD"}, entry_time : {<<>>}, type : {"BUY", "SELL"}]

\* the trade lists the server returns: none, a few, and more than a page of
\* TradeHistory
ShortList == 2
LongList == 17
FetchedList(n) ==
    [i \in 1..n |->
        [ticket |-> i, time |-> 12 * i,
         net_profit |-> CASE i % 3 = 1 -> 100 [] i % 3 = 2 -> -50 [] OTHER -> 0,
         symbol |-> IF i % 2 = 0 THEN "XAUUSD" ELSE "EURUSD",
         volume |-> 1 + (i % 2),
         type |-> IF i % 4 < 2 THEN "BUY" ELSE "SELL"]]
FetchedLists == {FetchedList(n) : n \in {0, ShortList, LongList}}
AccountBalances == {1000}
Tabs == {"overview", "history", "analysis", "report"}

\* requests of one kind that NewsCalendar has outstanding at once, fetches
\* OpenPositions starts and sessions AISidePanel creates
MaxOutstanding == 2
MaxFetches == 3
MaxSessions == 3

\* longer lists for position sizing: wins smaller than the losses, with
\* break-even trades among them
SizingTrades == 4
SizingProfits == {-50, 0, 40}
SizingLists == [1..SizingTrades -> {Trade(0, p) : p \in SizingProfits}]

\* what is typed into the search box of TradeHistory
SearchTerms == {"", "xau", "1"}

RandomDraws == {<<0, 1>>, <<1, 2>>}

----
(* Shared helpers *)

RECURSIVE SumProfit(_)
SumProfit(s) == IF s = <<>> THEN 0 ELSE s[1].net_profit + SumProfit(Tail(s))

\* Array.prototype.sort with (a, b) => time(a) - time(b): stable, ascending
RECURSIVE InsertByTime(_, _)
InsertByTime(s, t) ==
    IF s = <<>> THEN <<t>>
    ELSE IF s[Len(s)].time <= t.time THEN Append(s, t)
    ELSE Append(InsertByTime(SubSeq(s, 1, Len(s) - 1), t), s[Len(s)])

RECURSIVE SortByTime(_)
SortByTime(s) ==
    IF s = <<>> THEN <<>>
    ELSE InsertByTime(SortByTime(SubSeq(s, 1, Len(s) - 1)), s[Len(s)])

----
(* TradingReport.metrics *)

RECURSIVE BalanceData(_, _)
BalanceData(sorted, runningBalance) ==
    IF sorted = <<>> THEN <<>>
    ELSE LET rb == runningBalance + sorted[1].net_profit
         IN  <<[fullDate |-> sorted[1].time,
                balance |-> Round2(rb),
                profit |-> Round2(sorted[1].net_profit)]>>
             \o BalanceData(Tail(sorted), rb)

\* DrawdownStep keeping the smallest drawdown instead of the largest
DrawdownStepKeepsMin(st, t) ==
    LET rb == st.runningBalance + t.net_profit
        pk == IF rb > st.peak THEN rb ELSE st.peak
        dd == RMul(RDiv(Num(pk - rb), Num(pk)), Num(100))
    IN  [runningBalance |-> rb, peak |-> pk,
         maxDD |-> IF RLt(dd, st.maxDD) THEN dd ELSE st.maxDD]

DrawdownStep(st, t) ==
    LET rb == st.runningBalance + t.net_profit
        pk == IF rb > st.peak THEN rb ELSE st.peak
        dd == RMul(RDiv(Num(pk - rb), Num(pk)), Num(100))
    IN  [runningBalance |-> rb, peak |-> pk,
         maxDD |-> IF RGt(dd, st.maxDD) THEN dd ELSE st.maxDD]

RECURSIVE DrawdownFold(_, _)
DrawdownFold(sorted, st) ==
    IF sorted = <<>> THEN st
    ELSE DrawdownFold(Tail(sorted), DrawdownStep(st, sorted[1]))

MaxDD(ts, ib) ==
    DrawdownFold(SortByTime(ts),
                 [runningBalance |-> ib, peak |-> ib, maxDD |-> Num(0)]).maxDD

StreakInit ==
    [currentStreak |-> 0, maxWinStreak |-> 0, maxLossStreak |-> 0,
     currentStreakProfit |-> 0, maxConsecutiveProfit |-> 0,
     maxConsecutiveLoss |-> 0, lastWasWin |-> JsNull]

StreakStep(st, t) ==
    LET isWin == t.net_profit > 0
        lw == st.lastWasWin = JsTrue
    IN  IF st.lastWasWin = JsNull \/ JsBool(isWin) = st.lastWasWin
        THEN [st EXCEPT !.currentStreak = @ + 1,
                        !.currentStreakProfit = @ + t.net_profit,
                        !.lastWasWin = JsBool(isWin)]
        ELSE [currentStreak |-> 1,
              currentStreakProfit |-> t.net_profit,
              lastWasWin |-> JsBool(isWin),
              maxWinStreak |->
                  IF lw /\ st.currentStreak > st.maxWinStreak
                  THEN st.currentStreak ELSE st.maxWinStreak,
              maxLossStreak |->
                  IF ~lw /\ st.currentStreak > st.maxLossStreak
                  THEN st.currentStreak ELSE st.maxLossStreak,
              maxConsecutiveProfit |->
                  IF lw /\ st.currentStreakProfit > st.maxConsecutiveProfit
                  THEN st.currentStreakProfit ELSE st.maxConsecutiveProfit,
              maxConsecutiveLoss |->
                  IF ~lw /\ st.currentStreakProfit < st.maxConsecutiveLoss
                  THEN st.currentStreakProfit ELSE st.maxConsecutiveLoss]

RECURSIVE StreakFold(_, _)
StreakFold(sorted, st) ==
    IF sorted = <<>> THEN st
    ELSE StreakFold(Tail(sorted), StreakStep(st, sorted[1]))

\* the two statements after the loop
StreakFlush(st) ==
    LET lw == st.lastWasWin = JsTrue
    IN  [st EXCEPT
           !.maxWinStreak =
               IF lw /\ st.currentStreak > @ THEN st.currentStreak ELSE @,
           !.maxLossStreak =
               IF ~lw /\ st.currentStreak > @ THEN st.currentStreak ELSE @]

Streaks(ts) == StreakFlush(StreakFold(SortByTime(ts), StreakInit))

\* entry_time is optional: <<>> when the trade has none
EntryTime(t) == IF "entry_time" \in DOMAIN t THEN t.entry_time ELSE <<>>

\* (exit - entry) / 60000 of a trade with an entry_time, times being in hours
HoldMinutes(t) == (t.time - EntryTime(t)[1]) * 60

RECURSIVE TotalMinutes(_)
TotalMinutes(ts) ==
    IF ts = <<>> THEN 0
    ELSE (IF EntryTime(ts[1]) # <<>> THEN HoldMinutes(ts[1]) ELSE 0)
         + TotalMinutes(Tail(ts))

\* the two numbers of `${hours}h ${minutes}m`
HoursAndMinutes(avgMinutes) ==
    [hours |-> RFloor(RDiv(avgMinutes, Num(60))),
     minutes |-> RFloor(RRem(avgMinutes, 60))]

AvgHoldTime(ts) ==
    LET countWithTime == Len(SelectSeq(ts, LAMBDA t : EntryTime(t) # <<>>))
        avgMinutes == IF countWithTime > 0
                      THEN RDiv(Num(TotalMinutes(ts)), Num(countWithTime))
                      ELSE Num(0)
    IN  HoursAndMinutes(avgMinutes)

\* the short side of the Long/Short split: the trades whose type is 'SELL'
ShortTradesAnyType(ts) == ts

ShortTrades(ts) == SelectSeq(ts, LAMBDA t : t.type = "SELL")

ComputeMetrics(ts, ib) ==
    IF Len(ts) = 0
    THEN [balanceData |-> <<>>, maxDrawdown |-> Num(0),
          longTrades |-> <<>>, shortTrades |-> <<>>,
          consecutiveWins |-> 0, consecutiveLosses |-> 0,
          maxConsecutiveProfit |-> 0, maxConsecutiveLoss |-> 0,
          avgHoldTime |-> [hours |-> Num(0), minutes |-> Num(0)]]
    ELSE LET s == Streaks(ts)
         IN  [balanceData |-> BalanceData(SortByTime(ts), ib),
              maxDrawdown |-> MaxDD(ts, ib),
              longTrades |-> SelectSeq(ts, LAMBDA t : t.type = "BUY"),
              shortTrades |-> ShortTrades(ts),
              consecutiveWins |-> s.maxWinStreak,
              consecutiveLosses |-> s.maxLossStreak,
              maxConsecutiveProfit |-> s.maxConsecutiveProfit,
              maxConsecutiveLoss |-> s.maxConsecutiveLoss,
              avgHoldTime |-> AvgHoldTime(ts)]

TradingReportMetrics ==
    /\ metrics = Null
    /\ metrics' = ComputeMetrics(trades, initialBalance)
    /\ UNCHANGED <<inputs, chartData, riskData, dailyData, maeMfe, duration,
                   riskOutputs, periodOutputs,
                   detailOutputs,
                   componentState>>

----
(* ChartPanel.chartData *)

HoursPerDay == 24

\* toISOString().split('T')[0] of the trade time shifted by timezoneOffset hours
DateKey(t, tz) == (t.time + tz) \div HoursPerDay

\* Object.keys(byDay).sort()
RECURSIVE SortedKeys(_)
SortedKeys(S) ==
    IF S = {} THEN <<>>
    ELSE LET m == CHOOSE x \in S : \A y \in S : x <= y
         IN  <<m>> \o SortedKeys(S \ {m})

RECURSIVE DayProfit(_, _, _)
DayProfit(ts, tz, key) ==
    IF ts = <<>> THEN 0
    ELSE (IF DateKey(ts[1], tz) = key THEN ts[1].net_profit ELSE 0)
         + DayProfit(Tail(ts), tz, key)

ChartDrawdown(peakBalance, balance) ==
    IF peakBalance > 0
    THEN RMul(RDiv(Num(peakBalance - balance), Num(peakBalance)), Num(100))
    ELSE Num(0)

RECURSIVE ChartDays(_, _, _, _, _, _)
ChartDays(keys, ts, tz, ib, cumProfit, peakBalance) ==
    IF keys = <<>> THEN <<>>
    ELSE LET profit == DayProfit(ts, tz, keys[1])
             cum == cumProfit + profit
             balance == ib + cum
             peak == IF balance > peakBalance THEN balance ELSE peakBalance
         IN  <<[date |-> keys[1], profit |-> profit, balance |-> balance,
                drawdown |-> ChartDrawdown(peak, balance),
                growth |-> IF ib > 0
                           THEN RMul(RDiv(Num(cum), Num(ib)), Num(100))
                           ELSE Num(0)]>>
             \o ChartDays(Tail(keys), ts, tz, ib, cum, peak)

ComputeChartData(ts, ib, tz) ==
    IF Len(ts) = 0 THEN <<>>
    ELSE ChartDays(SortedKeys({DateKey(ts[i], tz) : i \in 1..Len(ts)}),
                   ts, tz, ib, 0, ib)

ChartPanelChartData ==
    /\ chartData = Null
    /\ chartData' = [data |-> ComputeChartData(trades, initialBalance, timezoneOffset)]
    /\ UNCHANGED <<inputs, metrics, riskData, dailyData, maeMfe, duration,
                   riskOutputs, periodOutputs,
                   detailOutputs,
                   componentState>>

----
(* RiskOfRuin.riskData: the longest run of losing trades in the history *)

RECURSIVE MaxConsLosses(_, _, _)
MaxConsLosses(ts, currentStreak, maxConsLosses) ==
    IF ts = <<>> THEN maxConsLosses
    ELSE IF ts[1].net_profit < 0
         THEN MaxConsLosses(Tail(ts), currentStreak + 1,
                            IF currentStreak + 1 > maxConsLosses
                            THEN currentStreak + 1 ELSE maxConsLosses)
         ELSE MaxConsLosses(Tail(ts), 0, maxConsLosses)

ComputeRiskData(ts) ==
    IF Len(ts) = 0 THEN [maxConsecutiveLosses |-> 0]
    ELSE [maxConsecutiveLosses |-> MaxConsLosses(ts, 0, 0)]

RiskOfRuinRiskData ==
    /\ riskData = Null
    /\ riskData' = ComputeRiskData(trades)
    /\ UNCHANGED <<inputs, metrics, chartData, dailyData, maeMfe, duration,
                   riskOutputs, periodOutputs,
                   detailOutputs,
                   componentState>>

----
(* RiskOfRuin.riskData: the table of loss levels                           *)

LossLevels == <<100, 90, 80, 70, 60, 50, 40, 30, 20, 10>>

\* the least n >= 1 with q^n <= r, for 0 < q < 1 and 0 < r < 1
RECURSIVE LeastPower(_, _, _, _)
LeastPower(q, r, n, power) ==
    IF RLe(power, r) THEN n ELSE LeastPower(q, r, n + 1, RMul(power, q))

\* Math.ceil(Math.log(r) / Math.log(q)) for 0 <= r <= 1 and q < 1:
\* log(0) is -Infinity, log(1) is 0 and the logarithm of a negative number
\* is NaN
CeilLogRatio(r, q) ==
    IF RLt(q, Num(0)) THEN NaN
    ELSE IF q = Num(0) THEN (IF r = Num(0) THEN NaN ELSE Num(0))
    ELSE IF r = Num(0) THEN PosInf
    ELSE IF r = Num(1) THEN Num(0)
    ELSE Num(LeastPower(q, r, 1, q))

\* Math.max(0, Math.min(100, p * 100)) of a power p held as base and exp
ClampProbability(p) ==
    IF PowIsNaN(p) \/ PowIsZero(p) \/ RLe(p.base, Num(1)) \/ p.exp = Num(0)
    THEN p
    ELSE Pow(Num(1), Num(1))

LossLevelResult(lossPercent, winRate, lossPerTradeAvg) ==
    LET remainingPercent == RDiv(Num(100 - lossPercent), Num(100))
        byLog == IF RGt(lossPerTradeAvg, Num(0))
                 THEN CeilLogRatio(remainingPercent,
                                   RSub(Num(1), lossPerTradeAvg))
                 ELSE Num(0)
        consecutiveLosses ==
            IF RLt(byLog, Num(0)) \/ ~IsFinite(byLog)
            THEN RCeil(RDiv(Num(lossPercent), RMul(lossPerTradeAvg, Num(100))))
            ELSE byLog
        lossRate == RSub(Num(1), winRate)
        probability ==
            IF RGt(winRate, Rat(1, 2))
            THEN Pow(RDiv(lossRate, winRate), consecutiveLosses)
            ELSE Pow(lossRate, RDiv(consecutiveLosses, Num(10)))
    IN  [lossSize |-> lossPercent,
         probability |-> ClampProbability(probability),
         consecutiveLosses |-> MathMax(Num(1), consecutiveLosses)]

\* avgLoss is 1 (1000 mills) without a losing trade; lossPerTradeAvg is
\* avgLoss / 10000 (10000000 mills), a pure number
ComputeLossLevels(ts) ==
    IF Len(ts) = 0 THEN <<>>
    ELSE LET wins == SelectSeq(ts, LAMBDA t : t.net_profit > 0)
             losses == SelectSeq(ts, LAMBDA t : t.net_profit < 0)
             winRate == RDiv(Num(Len(wins)), Num(Len(ts)))
             avgLoss == IF Len(losses) > 0
                        THEN RAbs(RDiv(Num(SumProfit(losses)), Num(Len(losses))))
                        ELSE Num(1000)
             lossPerTradeAvg == RDiv(avgLoss, Num(10000000))
         IN  [i \in 1..Len(LossLevels) |->
                 LossLevelResult(LossLevels[i], winRate, lossPerTradeAvg)]

RiskOfRuinLossLevels ==
    /\ lossLevels = Null
    /\ lossLevels' = [results |-> ComputeLossLevels(trades)]
    /\ UNCHANGED <<inputs, pageOutputs, riskOutputs, periodOutputs,
                   growthData, drawdownTable, additionalMetrics,
                   componentState>>

----
(* Win/loss tallies: DailyChart.dailyData, MAEMFEChart and DurationChart *)

\* Date.prototype.getDay (0 = Sunday); hour 0 is a Saturday
GetDay(t) == ((t \div HoursPerDay) + 6) % 7

DayTrades(ts, dayOfWeek) == SelectSeq(ts, LAMBDA t : GetDay(t.time) = dayOfWeek)

\* one entry per weekday Monday (1) .. Friday (5); weekend trades are skipped
ComputeDailyData(ts) ==
    [dayNum \in 1..5 |->
        LET dt == DayTrades(ts, dayNum)
        IN  [total |-> Len(dt),
             netProfit |-> SumProfit(dt),
             winners |-> Len(SelectSeq(dt, LAMBDA t : t.net_profit > 0)),
             losers |-> Len(SelectSeq(dt, LAMBDA t : t.net_profit < 0))]]

DailyChartDailyData ==
    /\ dailyData = Null
    /\ dailyData' = [days |-> ComputeDailyData(trades)]
    /\ UNCHANGED <<inputs, metrics, chartData, riskData, maeMfe, duration,
                   riskOutputs, periodOutputs,
                   detailOutputs,
                   componentState>>

\* estimatePips: symbol.toLowerCase().includes('xau') is read as membership
\* in the symbols of the inputs that contain it; the result is in thousandths
\* of a pip per lot, as net_profit is in mills
XauSymbols == {"XAUUSD"}

EstimatePips(t) ==
    IF t.symbol \in XauSymbols
    THEN RDiv(RDiv(Num(t.net_profit), Num(t.volume)), Num(10))
    ELSE RMul(RDiv(Num(t.net_profit), Num(t.volume)), Num(10))

\* a point of MAEMFEChart; random is the value Math.random() returned for it
MaePoint(t, random) ==
    LET pips == EstimatePips(t)
    IN  [pips |-> pips,
         mae |-> IF t.net_profit > 0
                 THEN RMul(RNeg(RAbs(pips)), RMul(random, Rat(3, 10)))
                 ELSE RMul(pips, RAdd(Num(1), RMul(random, Rat(1, 2)))),
         profit |-> t.net_profit,
         isWinner |-> t.net_profit > 0]

\* a point of DurationChart: minutes between entry and exit, or a random
\* duration when the trade has no entry_time; growth is against 10000
\* (10000000 mills)
DurationPoint(t, random) ==
    [duration |-> IF t.entry_time # <<>>
                  THEN Num((t.time - t.entry_time[1]) * 60)
                  ELSE RAdd(RMul(random, Num(600)), Num(10)),
     growth |-> RMul(RDiv(Num(t.net_profit), Num(10000000)), Num(100)),
     profit |-> t.net_profit,
     isWinner |-> t.net_profit > 0]

\* if (net_profit > 0) winnerPoints.push(point) else loserPoints.push(point)
SplitPoints(points) ==
    [winners |-> SelectSeq(points, LAMBDA pt : pt.isWinner),
     losers |-> SelectSeq(points, LAMBDA pt : ~pt.isWinner)]

\* the memo is computed at the first render and again whenever the trades
\* array is replaced, as a refresh does even when it returns the same trades;
\* every computation calls Math.random() for each trade
MAEMFEChartPoints ==
    /\ \E randoms \in [1..Len(trades) -> RandomDraws] :
           maeMfe' = SplitPoints([i \in 1..Len(trades) |->
                                     MaePoint(trades[i], randoms[i])])
    /\ UNCHANGED <<inputs, metrics, chartData, riskData, dailyData, duration,
                   riskOutputs, periodOutputs,
                   detailOutputs,
                   componentState>>

DurationChartPoints ==
    /\ \E randoms \in [1..Len(trades) -> RandomDraws] :
           duration' = SplitPoints([i \in 1..Len(trades) |->
                                       DurationPoint(trades[i], randoms[i])])
    /\ UNCHANGED <<inputs, metrics, chartData, riskData, dailyData, maeMfe,
                   riskOutputs, periodOutputs,
                   detailOutputs,
                   componentState>>

----
(* RiskModel.riskMetrics and the recommendation computed from it.  The     *)
(* record holds the fields the recommendation and the claims read.         *)

RECURSIVE RSum(_)
RSum(rs) == IF rs = <<>> THEN Num(0) ELSE RAdd(rs[1], RSum(Tail(rs)))

RSquare(a) == RMul(a, a)

TradeReturns(ts, ib) ==
    [i \in 1..Len(ts) |-> RMul(RDiv(Num(ts[i].net_profit), Num(ib)), Num(100))]

RECURSIVE SquaredDeviations(_, _)
SquaredDeviations(rs, avg) ==
    IF rs = <<>> THEN Num(0)
    ELSE RAdd(RSquare(RSub(rs[1], avg)), SquaredDeviations(Tail(rs), avg))

RiskRewardRatio(avgWinPct, avgLossPct) ==
    IF RGt(avgLossPct, Num(0)) THEN RDiv(avgWinPct, avgLossPct) ELSE Num(0)

KellyPct(winRate, avgWinPct, avgLossPct) ==
    LET w == RDiv(winRate, Num(100))
        rr == RiskRewardRatio(avgWinPct, avgLossPct)
    IN  IF RGt(avgLossPct, Num(0))
        THEN RMul(RDiv(RSub(RMul(w, rr), RSub(Num(1), w)), rr), Num(100))
        ELSE Num(0)

ProfitFactor(totalWins, totalLosses) ==
    IF RGt(totalLosses, Num(0)) THEN RDiv(totalWins, totalLosses) ELSE Num(0)

DrawdownLevels == <<10, 20, 30, 50>>

\* the consecutive losses needed for each drawdown level
ConsecutiveLosses(avgLossPct) ==
    [i \in 1..Len(DrawdownLevels) |->
        [level |-> DrawdownLevels[i],
         trades |-> IF RLe(avgLossPct, Num(0)) THEN Num(999)
                    ELSE RCeil(RDiv(Num(DrawdownLevels[i]), avgLossPct))]]

ComputeRiskMetrics(ts, ib) ==
    LET tradeReturns == TradeReturns(ts, ib)
        n == Len(ts)
        avgReturnPct == RDiv(RSum(tradeReturns), Num(n))
        variance == RDiv(SquaredDeviations(tradeReturns, avgReturnPct), Num(n))
        winReturns == SelectSeq(tradeReturns, LAMBDA r : RGt(r, Num(0)))
        lossReturns == SelectSeq(tradeReturns, LAMBDA r : RLt(r, Num(0)))
        avgWinPct == IF Len(winReturns) > 0
                     THEN RDiv(RSum(winReturns), Num(Len(winReturns)))
                     ELSE Num(0)
        avgLossPct == IF Len(lossReturns) > 0
                      THEN RAbs(RDiv(RSum(lossReturns), Num(Len(lossReturns))))
                      ELSE Num(0)
        winRate == RMul(RDiv(Num(Len(winReturns)), Num(n)), Num(100))
        w == RDiv(winRate, Num(100))
        kellyPct == KellyPct(winRate, avgWinPct, avgLossPct)
        breakEvenWinRate ==
            IF RGt(RAdd(avgWinPct, avgLossPct), Num(0))
            THEN RMul(RDiv(avgLossPct, RAdd(avgWinPct, avgLossPct)), Num(100))
            ELSE Num(50)
    IN  [avgReturnPct |-> avgReturnPct,
         variance |-> variance,
         avgWinPct |-> avgWinPct,
         avgLossPct |-> avgLossPct,
         winRate |-> winRate,
         riskRewardRatio |-> RiskRewardRatio(avgWinPct, avgLossPct),
         expectancyPct |-> RSub(RMul(w, avgWinPct),
                                RMul(RSub(Num(1), w), avgLossPct)),
         kellyPct |-> kellyPct,
         kellyHalf |-> RDiv(kellyPct, Num(2)),
         profitFactor |-> ProfitFactor(RSum(winReturns), RAbs(RSum(lossReturns))),
         breakEvenWinRate |-> breakEvenWinRate,
         edge |-> RSub(winRate, breakEvenWinRate),
         consecutiveLosses |-> ConsecutiveLosses(avgLossPct)]

\* riskMetrics is null (nothing is rendered) for an empty trade list
RiskModelRiskMetrics ==
    /\ riskMetrics = Null
    /\ Len(trades) > 0
    /\ riskMetrics' = ComputeRiskMetrics(trades, initialBalance)
    /\ UNCHANGED <<inputs, pageOutputs, recommendation, periodOutputs,
                   detailOutputs,
                   componentState>>

\* a row of the Drawdown Risk Analysis table; probability is the power that
\* the row multiplies by 100
TableRow(m, row) ==
    LET lossRate == RSub(Num(1), RDiv(m.winRate, Num(100)))
    IN  [level |-> row.level, trades |-> row.trades,
         probability |-> Pow(lossRate, row.trades)]

ComputeDrawdownTable(m) ==
    [i \in DOMAIN m.consecutiveLosses |-> TableRow(m, m.consecutiveLosses[i])]

\* the table is rendered only once riskMetrics exists
RiskModelDrawdownTable ==
    /\ riskMetrics # Null
    /\ drawdownTable = Null
    /\ drawdownTable' = [rows |-> ComputeDrawdownTable(riskMetrics)]
    /\ UNCHANGED <<inputs, pageOutputs, riskOutputs, periodOutputs,
                   growthData, additionalMetrics, lossLevels,
                   componentState>>

\* stdDevPct = Math.sqrt(variance) is compared through its square
StdDevLt(variance, x) == RGe(x, Num(0)) /\ RLt(variance, RSquare(x))
StdDevGt(variance, x) == RGe(x, Num(0)) /\ RGt(variance, RSquare(x))

\* RiskScore without the final Math.max(0, Math.min(100, riskScore))
RiskScoreUncapped(m) ==
    LET edgeAdj == IF RGt(m.edge, Num(15)) THEN 20
                   ELSE IF RGt(m.edge, Num(10)) THEN 15
                   ELSE IF RGt(m.edge, Num(5)) THEN 10
                   ELSE IF RGt(m.edge, Num(0)) THEN 5
                   ELSE -20
        winAdj == IF RGe(m.winRate, Num(50)) THEN 10 ELSE -10
        pfAdj == IF RGe(m.profitFactor, Num(2)) THEN 15
                 ELSE IF RGe(m.profitFactor, Rat(3, 2)) THEN 10
                 ELSE IF RGe(m.profitFactor, Rat(6, 5)) THEN 5
                 ELSE IF RLt(m.profitFactor, Num(1)) THEN -20
                 ELSE 0
        expAdj == IF RGt(m.expectancyPct, Rat(1, 2)) THEN 10
                  ELSE IF RGt(m.expectancyPct, Num(0)) THEN 5
                  ELSE -15
        devAdj == IF StdDevLt(m.variance, m.avgLossPct) THEN 5
                  ELSE IF StdDevGt(m.variance, RMul(m.avgLossPct, Num(2))) THEN -10
                  ELSE 0
        raw == 50 + edgeAdj + winAdj + pfAdj + expAdj + devAdj
    IN  raw

RiskScore(m) ==
    LET edgeAdj == IF RGt(m.edge, Num(15)) THEN 20
                   ELSE IF RGt(m.edge, Num(10)) THEN 15
                   ELSE IF RGt(m.edge, Num(5)) THEN 10
                   ELSE IF RGt(m.edge, Num(0)) THEN 5
                   ELSE -20
        winAdj == IF RGe(m.winRate, Num(50)) THEN 10 ELSE -10
        pfAdj == IF RGe(m.profitFactor, Num(2)) THEN 15
                 ELSE IF RGe(m.profitFactor, Rat(3, 2)) THEN 10
                 ELSE IF RGe(m.profitFactor, Rat(6, 5)) THEN 5
                 ELSE IF RLt(m.profitFactor, Num(1)) THEN -20
                 ELSE 0
        expAdj == IF RGt(m.expectancyPct, Rat(1, 2)) THEN 10
                  ELSE IF RGt(m.expectancyPct, Num(0)) THEN 5
                  ELSE -15
        devAdj == IF StdDevLt(m.variance, m.avgLossPct) THEN 5
                  ELSE IF StdDevGt(m.variance, RMul(m.avgLossPct, Num(2))) THEN -10
                  ELSE 0
        raw == 50 + edgeAdj + winAdj + pfAdj + expAdj + devAdj
    IN  IF raw < 0 THEN 0 ELSE IF raw > 100 THEN 100 ELSE raw

\* Recommend with the strong-system band handing out Half-Kelly uncapped
RecommendUncapped(m) ==
    LET riskScore == RiskScore(m)
    IN  IF riskScore >= 75
        THEN [riskScore |-> riskScore, riskLevel |-> "moderate",
              recommendedPct |-> m.kellyHalf]
        ELSE IF riskScore >= 50
        THEN [riskScore |-> riskScore, riskLevel |-> "moderate",
              recommendedPct |-> MathMin(RDiv(m.kellyHalf, Num(2)), Num(3))]
        ELSE IF riskScore >= 30
        THEN [riskScore |-> riskScore, riskLevel |-> "conservative",
              recommendedPct |-> MathMin(Num(1), RDiv(m.kellyHalf, Num(4)))]
        ELSE [riskScore |-> riskScore, riskLevel |-> "conservative",
              recommendedPct |-> Rat(1, 2)]

Recommend(m) ==
    LET riskScore == RiskScore(m)
    IN  IF riskScore >= 75
        THEN [riskScore |-> riskScore, riskLevel |-> "moderate",
              recommendedPct |-> MathMin(m.kellyHalf, Num(5))]
        ELSE IF riskScore >= 50
        THEN [riskScore |-> riskScore, riskLevel |-> "moderate",
              recommendedPct |-> MathMin(RDiv(m.kellyHalf, Num(2)), Num(3))]
        ELSE IF riskScore >= 30
        THEN [riskScore |-> riskScore, riskLevel |-> "conservative",
              recommendedPct |-> MathMin(Num(1), RDiv(m.kellyHalf, Num(4)))]
        ELSE [riskScore |-> riskScore, riskLevel |-> "conservative",
              recommendedPct |-> Rat(1, 2)]

\* the recommendation section is rendered only once riskMetrics exists
RiskModelRecommendation ==
    /\ riskMetrics # Null
    /\ recommendation = Null
    /\ recommendation' = Recommend(riskMetrics)
    /\ UNCHANGED <<inputs, pageOutputs, riskMetrics, periodOutputs,
                   detailOutputs,
                   componentState>>

----
(* The local calendar behind Date: getFullYear, getMonth, getDate and the  *)
(* constructor new Date(year, month, day), which normalises a month or a   *)
(* day outside its range.  Hour 0 is 2022-01-01 00:00; the calendar covers *)
(* 2022 to 2026.                                                           *)

IsLeap(y) == (y % 4 = 0 /\ y % 100 # 0) \/ y % 400 = 0

DaysInYear(y) == IF IsLeap(y) THEN 366 ELSE 365

\* month is 0-based, as in JavaScript
DaysInMonth(y, m) ==
    IF m = 1 THEN (IF IsLeap(y) THEN 29 ELSE 28)
    ELSE IF m \in {3, 5, 8, 10} THEN 30
    ELSE 31

RECURSIVE DaysBeforeYear(_)
DaysBeforeYear(y) ==
    IF y <= 2022 THEN 0 ELSE DaysBeforeYear(y - 1) + DaysInYear(y - 1)

RECURSIVE DaysBeforeMonth(_, _)
DaysBeforeMonth(y, m) ==
    IF m <= 0 THEN 0 ELSE DaysBeforeMonth(y, m - 1) + DaysInMonth(y, m - 1)

\* new Date(y, m, d): local midnight; m = -1 is December of the year before,
\* d <= 0 counts back from the first of the month
MakeDate(y, m, d) ==
    LET yy == y + (m \div 12)
        mm == m % 12
    IN  HoursPerDay * (DaysBeforeYear(yy) + DaysBeforeMonth(yy, mm) + d - 1)

DayNumber(t) == t \div HoursPerDay

GetFullYear(t) ==
    CHOOSE y \in 2022..2026 :
        /\ DaysBeforeYear(y) <= DayNumber(t)
        /\ DayNumber(t) < DaysBeforeYear(y + 1)

GetMonth(t) ==
    LET y == GetFullYear(t)
        n == DayNumber(t) - DaysBeforeYear(y)
    IN  CHOOSE m \in 0..11 :
            /\ DaysBeforeMonth(y, m) <= n
            /\ n < DaysBeforeMonth(y, m + 1)

GetDate(t) ==
    LET y == GetFullYear(t)
    IN  DayNumber(t) - DaysBeforeYear(y) - DaysBeforeMonth(y, GetMonth(t)) + 1

\* d.setDate(n): the day of the month becomes n, the time of day is kept
SetDate(t, n) == MakeDate(GetFullYear(t), GetMonth(t), n) + (t % HoursPerDay)

----
(* PeriodsComparison.periodsData *)

\* const initialBalance = 10000, in mills
PeriodsInitialBalance == 10000000

\* trades.filter(d >= start && d < end) with an inclusive end
PeriodTradesEndInclusive(ts, start, end) ==
    SelectSeq(ts, LAMBDA t : t.time >= start /\ t.time <= end)

PeriodTrades(ts, start, end) ==
    SelectSeq(ts, LAMBDA t : t.time >= start /\ t.time < end)

CalculatePeriod(ts, start, end) ==
    LET periodTrades == PeriodTrades(ts, start, end)
    IN  [wins |-> Len(SelectSeq(periodTrades, LAMBDA t : t.net_profit > 0)),
         profit |-> SumProfit(periodTrades),
         total |-> Len(periodTrades)]

\* one row of the table: the current window and the window before it
PeriodRow(ts, start, end, prevStart, prevEnd) ==
    LET current == CalculatePeriod(ts, start, end)
        prev == CalculatePeriod(ts, prevStart, prevEnd)
    IN  [start |-> start, end |-> end,
         prevStart |-> prevStart, prevEnd |-> prevEnd,
         gainPct |-> RMul(RDiv(Num(current.profit), Num(PeriodsInitialBalance)),
                          Num(100)),
         profit |-> current.profit,
         winPct |-> IF current.total > 0
                    THEN RMul(RDiv(Num(current.wins), Num(current.total)), Num(100))
                    ELSE Num(0),
         trades |-> current.total,
         prevGainPct |-> RMul(RDiv(Num(prev.profit), Num(PeriodsInitialBalance)),
                              Num(100)),
         prevProfit |-> prev.profit,
         prevWinPct |-> IF prev.total > 0
                        THEN RMul(RDiv(Num(prev.wins), Num(prev.total)), Num(100))
                        ELSE Num(0),
         prevTrades |-> prev.total]

Today(n) == MakeDate(GetFullYear(n), GetMonth(n), GetDate(n))

MondayOffset(n) == IF GetDay(n) = 0 THEN -6 ELSE 1 - GetDay(n)

ThisWeekStart(n) == SetDate(Today(n), GetDate(Today(n)) + MondayOffset(n))

LastWeekStart(n) == SetDate(ThisWeekStart(n), GetDate(ThisWeekStart(n)) - 7)

ThisMonthStart(n) == MakeDate(GetFullYear(n), GetMonth(n), 1)

LastMonthStart(n) == MakeDate(GetFullYear(n), GetMonth(n) - 1, 1)

ThisYearStart(n) == MakeDate(GetFullYear(n), 0, 1)

LastYearStart(n) == MakeDate(GetFullYear(n) - 1, 0, 1)

PeriodLabels == {"Today", "This Week", "This Month", "This Year"}

ComputePeriodsData(ts, n) ==
    LET today == Today(n)
        yesterday == SetDate(today, GetDate(today) - 1)
    IN  [label \in PeriodLabels |->
            CASE label = "Today" ->
                   PeriodRow(ts, today, today + HoursPerDay, yesterday, today)
              [] label = "This Week" ->
                   PeriodRow(ts, ThisWeekStart(n), n,
                             LastWeekStart(n), ThisWeekStart(n))
              [] label = "This Month" ->
                   PeriodRow(ts, ThisMonthStart(n), n,
                             LastMonthStart(n), ThisMonthStart(n))
              [] label = "This Year" ->
                   PeriodRow(ts, ThisYearStart(n), n,
                             LastYearStart(n), ThisYearStart(n))]

\* now is the clock read at the time the memo is computed
PeriodsComparisonPeriodsData ==
    /\ periodsData = Null
    /\ periodsData' = [periods |-> ComputePeriodsData(trades, now)]
    /\ UNCHANGED <<inputs, pageOutputs, riskOutputs, profits, detailOutputs,
                   componentState>>

----
(* GoalTracker.profits *)

ProfitSince(ts, start) == SumProfit(SelectSeq(ts, LAMBDA t : t.time >= start))

ComputeProfits(ts, n) ==
    [daily |-> ProfitSince(ts, Today(n)),
     weekly |-> ProfitSince(ts, ThisWeekStart(n)),
     monthly |-> ProfitSince(ts, ThisMonthStart(n))]

GoalTrackerProfits ==
    /\ profits = Null
    /\ profits' = ComputeProfits(trades, now)
    /\ UNCHANGED <<inputs, pageOutputs, riskOutputs, periodsData,
                   detailOutputs,
                   componentState>>

----
(* AdvancedStats.additionalMetrics: pips and trade duration *)

RECURSIVE PipsOf(_)
PipsOf(ts) ==
    IF ts = <<>> THEN <<>> ELSE <<EstimatePips(ts[1])>> \o PipsOf(Tail(ts))

ComputeAdditionalMetrics(ts) ==
    IF Len(ts) = 0
    THEN [totalPips |-> Num(0),
          avgTradeDuration |-> [hours |-> Num(0), minutes |-> Num(0)],
          profitabilityPct |-> Num(50)]
    ELSE LET tradesWithEntryTime == SelectSeq(ts, LAMBDA t : t.entry_time # <<>>)
             winningTrades == SelectSeq(ts, LAMBDA t : t.net_profit > 0)
             avgDurationMinutes ==
                 IF Len(tradesWithEntryTime) > 0
                 THEN RDiv(Num(TotalMinutes(tradesWithEntryTime)),
                           Num(Len(tradesWithEntryTime)))
                 ELSE Num(0)
         IN  [totalPips |-> RSum(PipsOf(ts)),
              avgTradeDuration |-> HoursAndMinutes(avgDurationMinutes),
              profitabilityPct |->
                  RMul(RDiv(Num(Len(winningTrades)), Num(Len(ts))), Num(100))]

AdvancedStatsAdditionalMetrics ==
    /\ additionalMetrics = Null
    /\ additionalMetrics' = ComputeAdditionalMetrics(trades)
    /\ UNCHANGED <<inputs, pageOutputs, riskOutputs, periodOutputs,
                   growthData, drawdownTable, lossLevels,
                   componentState>>

----
(* GrowthChart.data *)

\* parseFloat(x.toFixed(2)): x to the nearest hundredth; NaN and the
\* infinities print as themselves and parse back
ToFixed2(x) ==
    IF x[2] = 0 THEN x
    ELSE Rat(Sgn(x[1]) * ((200 * Abs(x[1]) + x[2]) \div (2 * x[2])), 100)

\* trades.map in the order of the prop, balance carried across the elements
RECURSIVE GrowthPoints(_, _, _)
GrowthPoints(ts, ib, balance) ==
    IF ts = <<>> THEN <<>>
    ELSE LET b == balance + ts[1].net_profit
             gain == RMul(RDiv(Num(b - ib), Num(ib)), Num(100))
         IN  <<[fullDate |-> DayNumber(ts[1].time), gain |-> ToFixed2(gain)]>>
             \o GrowthPoints(Tail(ts), ib, b)

ComputeGrowthData(ts, ib) ==
    IF Len(ts) = 0 THEN <<>> ELSE GrowthPoints(ts, ib, ib)

GrowthChartData ==
    /\ growthData = Null
    /\ growthData' = [data |-> ComputeGrowthData(trades, initialBalance)]
    /\ UNCHANGED <<inputs, pageOutputs, riskOutputs, periodOutputs,
                   drawdownTable, additionalMetrics, lossLevels,
                   componentState>>

----
(* SymbolBreakdown.symbolData *)

\* one row per symbol in the order of first appearance, then the stable
\* sort by totalProfit, largest first
ComputeSymbolData(ts) ==
    LET Row(sym) ==
            LET of == SelectSeq(ts, LAMBDA t : t.symbol = sym)
                longs == SelectSeq(of, LAMBDA t : t.type = "BUY")
                shorts == SelectSeq(of, LAMBDA t : t.type # "BUY")
                wins == Len(SelectSeq(of, LAMBDA t : t.net_profit > 0))
                losses == Len(SelectSeq(of, LAMBDA t : t.net_profit < 0))
            IN  [symbol |-> sym,
                 longTrades |-> Len(longs),
                 longPips |-> RSum(PipsOf(longs)),
                 longProfit |-> SumProfit(longs),
                 shortTrades |-> Len(shorts),
                 shortPips |-> RSum(PipsOf(shorts)),
                 shortProfit |-> SumProfit(shorts),
                 totalTrades |-> Len(of),
                 totalPips |-> RSum(PipsOf(of)),
                 totalProfit |-> SumProfit(of),
                 wonPct |-> RMul(RDiv(Num(wins), Num(Len(of))), Num(100)),
                 lostPct |-> RMul(RDiv(Num(losses), Num(Len(of))), Num(100))]
        bySymbol[i \in 0..Len(ts)] ==
            IF i = 0 THEN <<>>
            ELSE IF \E j \in 1..(i - 1) : ts[j].symbol = ts[i].symbol
                 THEN bySymbol[i - 1]
                 ELSE Append(bySymbol[i - 1], Row(ts[i].symbol))
        rows == bySymbol[Len(ts)]
        Before(i, j) ==
            \/ rows[i].totalProfit > rows[j].totalProfit
            \/ rows[i].totalProfit = rows[j].totalProfit /\ i < j
        Rank(i) == 1 + Cardinality({j \in 1..Len(rows) : Before(j, i)})
    IN  [k \in 1..Len(rows) |-> rows[CHOOSE i \in 1..Len(rows) : Rank(i) = k]]

SymbolBreakdownSymbolData ==
    /\ symbolData = Null
    /\ symbolData' = [rows |-> ComputeSymbolData(trades)]
    /\ UNCHANGED <<inputs, pageOutputs, riskOutputs, periodOutputs,
                   detailOutputs, dashboard, tradeHistory,
                   newsCalendar, openPositions, aiSidePanel>>

----
(* TradeHistory: search, win/loss filter, sort and pagination *)

PerPage == 15

\* the search and win/loss filters of filteredTrades.  A search term is
\* matched against the lower-cased symbol and the decimal ticket: 'xau' is in
\* the gold symbols only and '1' in the tickets that have the digit 1
FilterTrades(ts, h) ==
    LET Matches(t) ==
            CASE h.searchTerm = "xau" -> t.symbol \in XauSymbols
              [] h.searchTerm = "1" -> t.ticket % 10 = 1 \/ t.ticket \div 10 = 1
        searched == IF h.searchTerm # "" THEN SelectSeq(ts, Matches) ELSE ts
    IN  IF h.filterType = "wins"
        THEN SelectSeq(searched, LAMBDA t : t.net_profit > 0)
        ELSE IF h.filterType = "losses"
        THEN SelectSeq(searched, LAMBDA t : t.net_profit < 0)
        ELSE searched

\* result.sort with the comparator of the sort field, negated for 'desc';
\* the sort is stable and localeCompare orders the symbols alphabetically
SortTrades(result, sortField, sortDir) ==
    LET Key(t) == CASE sortField = "time" -> t.time
                    [] sortField = "symbol" -> IF t.symbol = "EURUSD" THEN 1 ELSE 2
                    [] sortField = "profit" -> t.net_profit
                    [] sortField = "volume" -> t.volume
        Before(i, j) ==
            \/ sortDir = "desc" /\ Key(result[i]) > Key(result[j])
            \/ sortDir = "asc" /\ Key(result[i]) < Key(result[j])
            \/ Key(result[i]) = Key(result[j]) /\ i < j
        rank == [i \in 1..Len(result) |->
                    1 + Cardinality({j \in 1..Len(result) : Before(j, i)})]
    IN  [k \in 1..Len(result) |->
            result[CHOOSE i \in 1..Len(result) : rank[i] = k]]

\* filteredTrades with let result = trades: an unfiltered result is the prop
\* array itself, which the sort then reorders
FilteredTradesInPlace(ts, h) ==
    LET result == SortTrades(FilterTrades(ts, h), h.sortField, h.sortDir)
    IN  [trades |-> IF h.searchTerm = "" /\ h.filterType = "all"
                    THEN result ELSE ts,
         result |-> result]

\* filteredTrades: result is a copy ([...trades]) that is filtered and then
\* sorted in place; trades is the prop array after the computation
FilteredTrades(ts, h) ==
    [trades |-> ts,
     result |-> SortTrades(FilterTrades(ts, h), h.sortField, h.sortDir)]

PageCount(h) == (Len(h.filteredTrades) + PerPage - 1) \div PerPage

PaginatedTrades(h) ==
    LET first == (h.page - 1) * PerPage + 1
        last == IF h.page * PerPage < Len(h.filteredTrades)
                THEN h.page * PerPage ELSE Len(h.filteredTrades)
    IN  IF first > last THEN <<>> ELSE SubSeq(h.filteredTrades, first, last)

\* a render of TradeHistory with the props ts and the state h
TradeHistoryRender(ts, h) ==
    LET r == FilteredTrades(ts, h)
    IN  /\ trades' = r.trades
        /\ tradeHistory' = [h EXCEPT !.filteredTrades = r.result]

TradeHistorySearch ==
    /\ tradeHistory # Null
    /\ \E term \in SearchTerms :
           TradeHistoryRender(trades, [tradeHistory EXCEPT !.searchTerm = term,
                                                           !.page = 1])
    /\ UNCHANGED <<initialBalance, timezoneOffset, now, pageOutputs,
                   riskOutputs, periodOutputs, detailOutputs, symbolData,
                   dashboard, newsCalendar, openPositions, aiSidePanel>>

TradeHistoryFilter ==
    /\ tradeHistory # Null
    /\ \E type \in {"all", "wins", "losses"} :
           TradeHistoryRender(trades, [tradeHistory EXCEPT !.filterType = type,
                                                           !.page = 1])
    /\ UNCHANGED <<initialBalance, timezoneOffset, now, pageOutputs,
                   riskOutputs, periodOutputs, detailOutputs, symbolData,
                   dashboard, newsCalendar, openPositions, aiSidePanel>>

TradeHistoryHandleSort ==
    /\ tradeHistory # Null
    /\ \E field \in {"time", "symbol", "profit", "volume"} :
           TradeHistoryRender(trades,
               IF tradeHistory.sortField = field
               THEN [tradeHistory EXCEPT !.sortDir =
                        IF tradeHistory.sortDir = "asc" THEN "desc" ELSE "asc"]
               ELSE [tradeHistory EXCEPT !.sortField = field,
                                         !.sortDir = "desc"])
    /\ UNCHANGED <<initialBalance, timezoneOffset, now, pageOutputs,
                   riskOutputs, periodOutputs, detailOutputs, symbolData,
                   dashboard, newsCalendar, openPositions, aiSidePanel>>

\* Prev and Next are rendered while pageCount > 1; Prev is disabled on page 1
\* and Next on page pageCount
TradeHistoryPrev ==
    /\ tradeHistory # Null
    /\ PageCount(tradeHistory) > 1
    /\ tradeHistory.page # 1
    /\ TradeHistoryRender(trades,
           [tradeHistory EXCEPT !.page = IF @ - 1 > 1 THEN @ - 1 ELSE 1])
    /\ UNCHANGED <<initialBalance, timezoneOffset, now, pageOutputs,
                   riskOutputs, periodOutputs, detailOutputs, symbolData,
                   dashboard, newsCalendar, openPositions, aiSidePanel>>

TradeHistoryNext ==
    /\ tradeHistory # Null
    /\ PageCount(tradeHistory) > 1
    /\ tradeHistory.page # PageCount(tradeHistory)
    /\ TradeHistoryRender(trades,
           [tradeHistory EXCEPT !.page = IF @ + 1 < PageCount(tradeHistory)
                                          THEN @ + 1
                                          ELSE PageCount(tradeHistory)])
    /\ UNCHANGED <<initialBalance, timezoneOffset, now, pageOutputs,
                   riskOutputs, periodOutputs, detailOutputs, symbolData,
                   dashboard, newsCalendar, openPositions, aiSidePanel>>

----
(* Dashboard: connectMT5, refreshData and the tabs *)

\* The state of the Dashboard: the useState values that the data loading
\* reads and writes, awaiting (the request the running handler waits for) and
\* tradesRes (the local constant of that handler).  The response of
\* statsApi.calculate or statsApi.getPeriodStats is decided by the arguments
\* of the request: calculatedFrom and initial_balance.

\* connectMT5 up to its first await; the handler returns early, with an
\* error, unless login, password and server are all filled in
DashboardConnectMT5 ==
    /\ dashboard # Null
    /\ ~dashboard.loading
    /\ ~dashboard.isConnected
    /\ \E filled \in BOOLEAN :
           dashboard' = IF filled
                        THEN [dashboard EXCEPT !.loading = TRUE,
                                               !.error = FALSE,
                                               !.awaiting = "connect"]
                        ELSE [dashboard EXCEPT !.error = TRUE]
    /\ UNCHANGED <<inputs, pageOutputs, riskOutputs, periodOutputs,
                   detailOutputs, symbolData, tradeHistory,
                   newsCalendar, openPositions, aiSidePanel>>

\* mt5Api.connect resolves; the trades request follows
DashboardConnectResolved ==
    /\ dashboard # Null
    /\ dashboard.awaiting = "connect"
    /\ \E balance \in AccountBalances :
           dashboard' = [dashboard EXCEPT !.account = [balance |-> balance],
                                          !.isConnected = TRUE,
                                          !.awaiting = "trades"]
    /\ UNCHANGED <<inputs, pageOutputs, riskOutputs, periodOutputs,
                   detailOutputs, symbolData, tradeHistory,
                   newsCalendar, openPositions, aiSidePanel>>

\* refreshData up to its first await
DashboardRefreshData ==
    /\ dashboard # Null
    /\ ~dashboard.loading
    /\ dashboard.isConnected
    /\ dashboard.account # Null
    /\ dashboard' = [dashboard EXCEPT !.loading = TRUE,
                                      !.error = FALSE,
                                      !.awaiting = "trades"]
    /\ UNCHANGED <<inputs, pageOutputs, riskOutputs, periodOutputs,
                   detailOutputs, symbolData, tradeHistory,
                   newsCalendar, openPositions, aiSidePanel>>

\* mt5Api.getTrades resolves in connectMT5 or refreshData: setTrades, and
\* for an empty list the handler is finished.  The components that are
\* mounted render with the new prop and their memos are evaluated again.
DashboardGetTradesResolved ==
    /\ dashboard # Null
    /\ dashboard.awaiting = "trades"
    /\ \E fetched \in FetchedLists :
           /\ dashboard' =
                  IF Len(fetched) > 0
                  THEN [dashboard EXCEPT !.tradesRes = fetched,
                                         !.awaiting = "stats"]
                  ELSE [dashboard EXCEPT !.loading = FALSE,
                                         !.awaiting = "none"]
           /\ IF tradeHistory # Null
              THEN TradeHistoryRender(fetched, tradeHistory)
              ELSE trades' = fetched /\ tradeHistory' = tradeHistory
    /\ metrics' = Null
    /\ chartData' = Null
    /\ UNCHANGED <<initialBalance, timezoneOffset, now,
                   riskData, dailyData, maeMfe, duration,
                   riskOutputs, periodOutputs, detailOutputs, symbolData,
                   newsCalendar, openPositions, aiSidePanel>>

\* statsApi.calculate resolves: setStats; stats.initial_balance is the
\* initialBalance prop of the panels
DashboardCalculateResolved ==
    /\ dashboard # Null
    /\ dashboard.awaiting = "stats"
    /\ LET totalProfit == SumProfit(dashboard.tradesRes)
           startingBalance == dashboard.account.balance - totalProfit
       IN  /\ dashboard' =
                  [dashboard EXCEPT
                      !.stats = [calculatedFrom |-> dashboard.tradesRes,
                                 initial_balance |-> startingBalance],
                      !.awaiting = "periods"]
           /\ initialBalance' = startingBalance
    /\ metrics' = Null
    /\ chartData' = Null
    /\ UNCHANGED <<trades, timezoneOffset, now,
                   riskData, dailyData, maeMfe, duration,
                   riskOutputs, periodOutputs, detailOutputs, symbolData,
                   tradeHistory, newsCalendar, openPositions, aiSidePanel>>

\* statsApi.getPeriodStats resolves: setPeriods, then finally
DashboardGetPeriodStatsResolved ==
    /\ dashboard # Null
    /\ dashboard.awaiting = "periods"
    /\ LET totalProfit == SumProfit(dashboard.tradesRes)
           startingBalance == dashboard.account.balance - totalProfit
       IN  dashboard' =
               [dashboard EXCEPT
                   !.periods = [calculatedFrom |-> dashboard.tradesRes,
                                initial_balance |-> startingBalance],
                   !.loading = FALSE,
                   !.awaiting = "none",
                   !.tradesRes = Null]
    /\ UNCHANGED <<inputs, pageOutputs, riskOutputs, periodOutputs,
                   detailOutputs, symbolData, tradeHistory,
                   newsCalendar, openPositions, aiSidePanel>>

\* the request that is awaited rejects: catch sets the error, then finally
DashboardRequestRejected ==
    /\ dashboard # Null
    /\ dashboard.awaiting # "none"
    /\ dashboard' = [dashboard EXCEPT !.error = TRUE,
                                      !.loading = FALSE,
                                      !.awaiting = "none",
                                      !.tradesRes = Null]
    /\ UNCHANGED <<inputs, pageOutputs, riskOutputs, periodOutputs,
                   detailOutputs, symbolData, tradeHistory,
                   newsCalendar, openPositions, aiSidePanel>>

\* a tab button, rendered once stats is set: the components of the tab that
\* is left are unmounted and those of the new tab are mounted
DashboardSetActiveTab ==
    /\ dashboard # Null
    /\ dashboard.stats # Null
    /\ \E tab \in Tabs \ {dashboard.activeTab} :
           /\ dashboard' = [dashboard EXCEPT !.activeTab = tab]
           /\ IF tab = "history"
              THEN TradeHistoryRender(trades,
                       [searchTerm |-> "", filterType |-> "all",
                        sortField |-> "time", sortDir |-> "desc", page |-> 1,
                        filteredTrades |-> <<>>])
              ELSE trades' = trades /\ tradeHistory' = Null
    /\ metrics' = Null
    /\ chartData' = Null
    /\ UNCHANGED <<initialBalance, timezoneOffset, now,
                   riskData, dailyData, maeMfe, duration,
                   riskOutputs, periodOutputs, detailOutputs, symbolData,
                   newsCalendar, openPositions, aiSidePanel>>

----
(* NewsCalendar: loading the events.  forexFactory and demo count the       *)
(* requests of each kind that are outstanding; events names the source of   *)
(* the events on display.                                                   *)

\* the Refresh button (disabled while loading): fetchForexFactoryEvents up
\* to its await
NewsCalendarFetchForexFactoryEvents ==
    /\ newsCalendar # Null
    /\ ~newsCalendar.loading
    /\ newsCalendar.forexFactory < MaxOutstanding
    /\ newsCalendar' = [newsCalendar EXCEPT !.loading = TRUE,
                                            !.error = FALSE,
                                            !.forexFactory = @ + 1]
    /\ UNCHANGED <<inputs, pageOutputs, riskOutputs, periodOutputs,
                   detailOutputs, symbolData, dashboard, tradeHistory,
                   openPositions, aiSidePanel>>

\* the rest of fetchForexFactoryEvents.  On a failure catch sets the error
\* and calls fetchDemoEvents, which runs up to its own await (loading on,
\* error cleared, request sent); finally then turns loading off.
NewsCalendarForexFactorySettled ==
    /\ newsCalendar # Null
    /\ newsCalendar.forexFactory > 0
    /\ \E ok \in IF newsCalendar.demo < MaxOutstanding THEN BOOLEAN ELSE {TRUE} :
           newsCalendar' =
               IF ok
               THEN [newsCalendar EXCEPT !.events = "forexfactory",
                                         !.dataSource = "forexfactory",
                                         !.loading = FALSE,
                                         !.forexFactory = @ - 1]
               ELSE [newsCalendar EXCEPT !.error = FALSE,
                                         !.demo = @ + 1,
                                         !.loading = FALSE,
                                         !.forexFactory = @ - 1]
    /\ UNCHANGED <<inputs, pageOutputs, riskOutputs, periodOutputs,
                   detailOutputs, symbolData, dashboard, tradeHistory,
                   openPositions, aiSidePanel>>

\* the rest of fetchDemoEvents
NewsCalendarDemoSettled ==
    /\ newsCalendar # Null
    /\ newsCalendar.demo > 0
    /\ \E ok \in BOOLEAN :
           newsCalendar' =
               IF ok
               THEN [newsCalendar EXCEPT !.events = "demo",
                                         !.dataSource = "demo",
                                         !.loading = FALSE,
                                         !.demo = @ - 1]
               ELSE [newsCalendar EXCEPT !.error = TRUE,
                                         !.loading = FALSE,
                                         !.demo = @ - 1]
    /\ UNCHANGED <<inputs, pageOutputs, riskOutputs, periodOutputs,
                   detailOutputs, symbolData, dashboard, tradeHistory,
                   openPositions, aiSidePanel>>

----
(* OpenPositions: fetchPositions.  The fetches are numbered in the order    *)
(* they start; positions is the number of the fetch whose response is on    *)
(* display (0: the initial empty list) and completed the fetches that have  *)
(* delivered one.                                                           *)

\* fetchPositions up to its await, called by the 5-second timer, by the
\* effect of the Auto checkbox or by a button
OpenPositionsFetchPositions ==
    /\ openPositions # Null
    /\ openPositions.started < MaxFetches
    /\ openPositions' =
           [openPositions EXCEPT !.loading = TRUE,
                                 !.error = FALSE,
                                 !.started = @ + 1,
                                 !.outstanding = @ \cup {openPositions.started + 1}]
    /\ UNCHANGED <<inputs, pageOutputs, riskOutputs, periodOutputs,
                   detailOutputs, symbolData, dashboard, tradeHistory,
                   newsCalendar, aiSidePanel>>

\* the rest of fetchPositions for a fetch that is outstanding; the responses
\* arrive in any order
OpenPositionsSettled ==
    /\ openPositions # Null
    /\ \E fetch \in openPositions.outstanding, ok \in BOOLEAN :
           openPositions' =
               IF ok
               THEN [openPositions EXCEPT !.positions = fetch,
                                          !.completed = @ \cup {fetch},
                                          !.loading = FALSE,
                                          !.outstanding = @ \ {fetch}]
               ELSE [openPositions EXCEPT !.error = TRUE,
                                          !.loading = FALSE,
                                          !.outstanding = @ \ {fetch}]
    /\ UNCHANGED <<inputs, pageOutputs, riskOutputs, periodOutputs,
                   detailOutputs, symbolData, dashboard, tradeHistory,
                   newsCalendar, aiSidePanel>>

----
(* AISidePanel: chat sessions.  A session is its id; the ids are numbered   *)
(* in the order they are created and activeSessionId 0 stands for null.     *)

AISidePanelCreateNewSession ==
    /\ aiSidePanel # Null
    /\ aiSidePanel.created < MaxSessions
    /\ LET uniqueId == aiSidePanel.created + 1
       IN  aiSidePanel' = [sessions |-> <<uniqueId>> \o aiSidePanel.sessions,
                           activeSessionId |-> uniqueId,
                           created |-> uniqueId]
    /\ UNCHANGED <<inputs, pageOutputs, riskOutputs, periodOutputs,
                   detailOutputs, symbolData, dashboard, tradeHistory,
                   newsCalendar, openPositions>>

\* sessions[0] is read from the list of the render, before the removal
AISidePanelDeleteSession ==
    /\ aiSidePanel # Null
    /\ \E i \in 1..Len(aiSidePanel.sessions) :
           LET id == aiSidePanel.sessions[i]
           IN  aiSidePanel' =
                   [aiSidePanel EXCEPT
                       !.sessions = SelectSeq(@, LAMBDA s : s # id),
                       !.activeSessionId =
                           IF @ = id THEN aiSidePanel.sessions[1] ELSE @]
    /\ UNCHANGED <<inputs, pageOutputs, riskOutputs, periodOutputs,
                   detailOutputs, symbolData, dashboard, tradeHistory,
                   newsCalendar, openPositions>>

\* a session tab; the tabs are rendered while there is more than one session
AISidePanelSelectSession ==
    /\ aiSidePanel # Null
    /\ Len(aiSidePanel.sessions) > 1
    /\ \E i \in 1..Len(aiSidePanel.sessions) :
           aiSidePanel' =
               [aiSidePanel EXCEPT !.activeSessionId = aiSidePanel.sessions[i]]
    /\ UNCHANGED <<inputs, pageOutputs, riskOutputs, periodOutputs,
                   detailOutputs, symbolData, dashboard, tradeHistory,
                   newsCalendar, openPositions>>

----
(* Specifications: each draws the inputs of a group of components and lets *)
(* every component of the group compute its memo once.                     *)

NoOutput ==
    /\ metrics = Null
    /\ chartData = Null
    /\ riskData = Null
    /\ dailyData = Null
    /\ maeMfe = Null
    /\ duration = Null
    /\ riskMetrics = Null
    /\ recommendation = Null
    /\ periodsData = Null
    /\ profits = Null
    /\ growthData = Null
    /\ drawdownTable = Null
    /\ additionalMetrics = Null
    /\ lossLevels = Null
    /\ symbolData = Null
    /\ dashboard = Null
    /\ tradeHistory = Null
    /\ newsCalendar = Null
    /\ openPositions = Null
    /\ aiSidePanel = Null

\* equity curve, drawdown and streaks
Init ==
    /\ trades \in TradeLists(Times, NetProfits, MaxTrades)
    /\ initialBalance \in Balances
    /\ timezoneOffset \in TimezoneOffsets
    /\ now = 0
    /\ NoOutput

Next ==
    \/ TradingReportMetrics
    \/ ChartPanelChartData
    \/ RiskOfRuinRiskData

Spec == Init /\ [][Next]_vars

\* win/loss tallies
InitTally ==
    /\ trades \in ListsOver(TallyTrades, MaxTallyTrades)
    /\ initialBalance = 0
    /\ timezoneOffset = 0
    /\ now = 0
    /\ NoOutput

NextTally ==
    \/ DailyChartDailyData
    \/ MAEMFEChartPoints
    \/ DurationChartPoints

SpecTally == InitTally /\ [][NextTally]_vars

\* risk profile and position sizing
InitRisk ==
    /\ trades \in TradeLists({0}, NetProfits, MaxTrades)
                     \cup SizingLists
    /\ initialBalance \in Balances
    /\ timezoneOffset = 0
    /\ now = 0
    /\ NoOutput

NextRisk ==
    \/ RiskModelRiskMetrics
    \/ RiskModelRecommendation
    \/ RiskModelDrawdownTable

SpecRisk == InitRisk /\ [][NextRisk]_vars

\* calendar periods
InitPeriods ==
    /\ now \in Nows
    /\ trades \in TradeLists(PeriodTimes(now), PeriodProfits, MaxPeriodTrades)
    /\ initialBalance \in PeriodBalances
    /\ timezoneOffset = 0
    /\ NoOutput

NextPeriods ==
    \/ PeriodsComparisonPeriodsData
    \/ GoalTrackerProfits

SpecPeriods == InitPeriods /\ [][NextPeriods]_vars

\* the order-dependent results: the same trades in every order of arrival,
\* among them trades closed at the same instant
InitOrder ==
    /\ trades \in TradeLists(Times, OrderProfits, MaxTrades)
    /\ initialBalance \in OrderBalances
    /\ timezoneOffset = 0
    /\ now = 0
    /\ NoOutput

NextOrder ==
    \/ TradingReportMetrics
    \/ GrowthChartData
    \/ RiskOfRuinRiskData

SpecOrder == InitOrder /\ [][NextOrder]_vars

\* risk of ruin: an account of 10000.000 whose history has a losing trade of
\* a size that the loss levels are reached in a few trades
InitRuin ==
    /\ trades \in {ts \in TradeLists({0}, RuinProfits, MaxRuinTrades) :
                      \E i \in 1..Len(ts) : ts[i].net_profit < 0}
    /\ initialBalance = 10000000
    /\ timezoneOffset = 0
    /\ now = 0
    /\ NoOutput

NextRuin ==
    \/ RiskModelRiskMetrics
    \/ RiskModelDrawdownTable
    \/ RiskOfRuinLossLevels

SpecRuin == InitRuin /\ [][NextRuin]_vars

\* trade records as they arrive: with a volume of 0 and with an entry_time
\* after the exit among them
InitValidate ==
    /\ trades \in ListsOver(ValidateTrades, MaxValidateTrades)
    /\ initialBalance = 1000
    /\ timezoneOffset = 0
    /\ now = 0
    /\ NoOutput

NextValidate ==
    \/ TradingReportMetrics
    \/ AdvancedStatsAdditionalMetrics

SpecValidate == InitValidate /\ [][NextValidate]_vars

----
(* Equity curve, drawdown and streak properties *)

FinalBalance(balanceData, ib) ==
    IF balanceData = <<>> THEN ib ELSE balanceData[Len(balanceData)].balance

\* C1: the final balance of every reconstructed equity curve equals
\* initial_balance plus the sum of net_profit over all trades, exactly.
C1_FinalBalanceExact ==
    /\ metrics # Null =>
         FinalBalance(metrics.balanceData, initialBalance)
             = initialBalance + SumProfit(trades)
    /\ chartData # Null =>
         FinalBalance(chartData.data, initialBalance)
             = initialBalance + SumProfit(trades)

NonDecreasing(ts) == \A i \in 1..Len(ts) : ts[i].net_profit >= 0

\* C2: max_drawdown_pct is >= 0, and it is 0 whenever the running balance
\* never decreases along the time-ordered sequence (TradingReport's maxDD and
\* every drawdown point of ChartPanel).
C2_MaxDrawdownNonNegative ==
    /\ metrics # Null =>
         /\ RGe(metrics.maxDrawdown, Num(0))
         /\ NonDecreasing(trades) => metrics.maxDrawdown = Num(0)
    /\ chartData # Null =>
         \A i \in 1..Len(chartData.data) :
             /\ RGe(chartData.data[i].drawdown, Num(0))
             /\ NonDecreasing(trades) => chartData.data[i].drawdown = Num(0)

\* a rising balance has been analysed and, in another run, a falling one
C2_Witness ==
    /\ metrics # Null
    /\ chartData # Null
    /\ Len(trades) >= 2
    /\ NonDecreasing(trades)
    /\ SumProfit(trades) > 0
    /\ initialBalance < 0
    /\ metrics.maxDrawdown = Num(0)

\* the longest run of consecutive trades whose profit has the given sign
RECURSIVE LongestRun(_, _, _, _)
LongestRun(ts, sign, current, best) ==
    IF ts = <<>> THEN best
    ELSE IF Sgn(ts[1].net_profit) = sign
         THEN LongestRun(Tail(ts), sign, current + 1,
                         IF current + 1 > best THEN current + 1 ELSE best)
         ELSE LongestRun(Tail(ts), sign, 0, best)

\* C4: a zero-profit trade ends the streak in progress and belongs to neither
\* a winning nor a losing streak: the reported maxima are the longest runs of
\* strictly positive and of strictly negative trades in time order.
C4_ZeroProfitBreaksStreak ==
    metrics # Null =>
        /\ metrics.consecutiveWins = LongestRun(SortByTime(trades), 1, 0, 0)
        /\ metrics.consecutiveLosses = LongestRun(SortByTime(trades), -1, 0, 0)

\* the running balance, and with it the running peak, never exceeds 0
RECURSIVE PeakNeverPositive(_, _)
PeakNeverPositive(sorted, balance) ==
    /\ balance <= 0
    /\ sorted # <<>> =>
           PeakNeverPositive(Tail(sorted), balance + sorted[1].net_profit)

\* C14: the drawdown of a step whose running peak is <= 0 is 0, so
\* max_drawdown_pct (TradingReport) and every drawdown point (ChartPanel) are
\* exactly 0, finite and not NaN, when the peak never exceeds 0.
C14_ZeroDrawdownWhilePeakNotPositive ==
    PeakNeverPositive(SortByTime(trades), initialBalance) =>
        /\ metrics # Null => metrics.maxDrawdown = Num(0)
        /\ chartData # Null =>
               \A i \in 1..Len(chartData.data) :
                   chartData.data[i].drawdown = Num(0)

\* the length of the run of trades of the given sign that ends the sequence
RECURSIVE FinalRunLen(_, _)
FinalRunLen(sorted, sign) ==
    IF sorted = <<>> \/ Sgn(sorted[Len(sorted)].net_profit) # sign THEN 0
    ELSE 1 + FinalRunLen(SubSeq(sorted, 1, Len(sorted) - 1), sign)

\* C15: when the streak in progress at the end of the time-ordered sequence
\* is longer than every earlier streak of its sign, the reported maximum
\* length is its length and the reported cumulative profit (loss) is at least
\* as large (as low) as its cumulative net_profit.
C15_FinalStreakFlushed ==
    metrics # Null =>
        LET s == SortByTime(trades)
            w == FinalRunLen(s, 1)
            l == FinalRunLen(s, -1)
        IN  /\ (w > 0 /\ w > LongestRun(SubSeq(s, 1, Len(s) - w), 1, 0, 0)) =>
                   /\ metrics.consecutiveWins = w
                   /\ metrics.maxConsecutiveProfit
                          >= SumProfit(SubSeq(s, Len(s) - w + 1, Len(s)))
            /\ (l > 0 /\ l > LongestRun(SubSeq(s, 1, Len(s) - l), -1, 0, 0)) =>
                   /\ metrics.consecutiveLosses = l
                   /\ metrics.maxConsecutiveLoss
                          <= SumProfit(SubSeq(s, Len(s) - l + 1, Len(s)))

\* the <<length, cumulative net_profit>> of every maximal run of trades of
\* the given sign
RECURSIVE RunsOf(_, _, _, _)
RunsOf(sorted, sign, len, sum) ==
    LET done == IF len > 0 THEN {<<len, sum>>} ELSE {}
    IN  IF sorted = <<>> THEN done
        ELSE IF Sgn(sorted[1].net_profit) = sign
             THEN RunsOf(Tail(sorted), sign, len + 1,
                         sum + sorted[1].net_profit)
             ELSE done \cup RunsOf(Tail(sorted), sign, 0, 0)

\* C16: max_consecutive_profit is the cumulative net_profit of a winning
\* streak whose length is max_consecutive_wins, and max_consecutive_loss that
\* of a losing streak whose length is max_consecutive_losses (0 and 0 when
\* there is no streak of that sign).
C16_StreakProfitBelongsToLongestStreak ==
    metrics # Null =>
        LET s == SortByTime(trades)
            wins == RunsOf(s, 1, 0, 0)
            losses == RunsOf(s, -1, 0, 0)
        IN  /\ IF wins = {}
               THEN metrics.consecutiveWins = 0
                    /\ metrics.maxConsecutiveProfit = 0
               ELSE <<metrics.consecutiveWins,
                      metrics.maxConsecutiveProfit>> \in wins
            /\ IF losses = {}
               THEN metrics.consecutiveLosses = 0
                    /\ metrics.maxConsecutiveLoss = 0
               ELSE <<metrics.consecutiveLosses,
                      metrics.maxConsecutiveLoss>> \in losses

----
(* Win/loss tally properties *)

CountSign(ts, sign) == Len(SelectSeq(ts, LAMBDA t : Sgn(t.net_profit) = sign))

\* C5: in every win/loss tally a trade with net_profit = 0 is part of the
\* total but is neither a win nor a loss; a win is net_profit > 0.
C5_ZeroProfitNeitherWinNorLoss ==
    /\ dailyData # Null =>
         \A d \in 1..5 :
             LET dt == DayTrades(trades, d)
             IN  /\ dailyData.days[d].total = Len(dt)
                 /\ dailyData.days[d].winners = CountSign(dt, 1)
                 /\ dailyData.days[d].losers = CountSign(dt, -1)
    /\ maeMfe # Null =>
         /\ Len(maeMfe.winners) = CountSign(trades, 1)
         /\ Len(maeMfe.losers) = CountSign(trades, -1)
    /\ duration # Null =>
         /\ Len(duration.winners) = CountSign(trades, 1)
         /\ Len(duration.losers) = CountSign(trades, -1)

\* C18: every derived value is a function of the explicit inputs only: a
\* memo that is computed again over the same trades, initial_balance, now and
\* timezone offset has the value it had (no random source, no hidden clock).
C18_RecomputationGivesSameResult ==
    [][/\ inputs' = inputs
       /\ dailyData # Null => dailyData' = dailyData
       /\ maeMfe # Null => maeMfe' = maeMfe
       /\ duration # Null => duration' = duration]_vars

----
(* Risk profile and position sizing properties *)

\* the value the displays render as infinity (profit_factor >= 999)
ProfitFactorUnbounded == 999

GrossProfit(ts) == SumProfit(SelectSeq(ts, LAMBDA t : t.net_profit > 0))
GrossLoss(ts) == SumProfit(SelectSeq(ts, LAMBDA t : t.net_profit < 0))

\* C3: profit_factor is the "unbounded" sentinel iff gross_loss = 0 and
\* gross_profit > 0; otherwise it is gross_profit / |gross_loss| (0 when
\* gross_profit is 0).
C3_ProfitFactorSentinel ==
    riskMetrics # Null =>
        LET gp == GrossProfit(trades)
            gl == GrossLoss(trades)
        IN  riskMetrics.profitFactor =
                IF gl = 0 /\ gp > 0 THEN Num(ProfitFactorUnbounded)
                ELSE IF gp = 0 THEN Num(0)
                ELSE RDiv(Num(gp), Num(Abs(gl)))

\* C9: kelly_pct is (win_rate - (1 - win_rate) / risk_reward_ratio) x 100
\* when risk_reward_ratio > 0 and is 0 whenever risk_reward_ratio <= 0.
C9_KellyFormula ==
    riskMetrics # Null =>
        LET w == RDiv(riskMetrics.winRate, Num(100))
            rr == riskMetrics.riskRewardRatio
        IN  riskMetrics.kellyPct =
                IF RGt(rr, Num(0))
                THEN RMul(RSub(w, RDiv(RSub(Num(1), w), rr)), Num(100))
                ELSE Num(0)

\* C10: recommended_risk_pct <= 5 whatever kelly_pct is and whichever score
\* band applies.
C10_RecommendedRiskAtMostFive ==
    recommendation # Null => RLe(recommendation.recommendedPct, Num(5))

\* a strong system whose Half-Kelly exceeds 5 has been given a recommendation
C10_Witness ==
    /\ recommendation # Null
    /\ recommendation.riskScore >= 75
    /\ RGt(riskMetrics.kellyHalf, Num(5))
    /\ recommendation.recommendedPct = Num(5)

\* the number of trades shown for a drawdown level that cannot be reached
UnreachableLosses == 999

\* C12: when no losing trade is observed (avg_loss_pct <= 0) every drawdown
\* level reports the 'unreachable' sentinel as its consecutive losses and a
\* probability of exactly 0.
C12_NoLossesUnreachableAndZero ==
    (drawdownTable # Null /\ RLe(riskMetrics.avgLossPct, Num(0))) =>
        \A i \in DOMAIN drawdownTable.rows :
            /\ drawdownTable.rows[i].trades = Num(UnreachableLosses)
            /\ PowIsZero(drawdownTable.rows[i].probability)

\* pow(a.base, a.exp) = pow(b.base, b.exp), decided as PowLe is
PowEq(a, b) == PowLe(a, b) /\ PowLe(b, a)

\* C11: across the fixed drawdown levels the reported probability never
\* increases as the level increases (RiskModel's table and RiskOfRuin's
\* loss levels).
C11_ProbabilityNonIncreasing ==
    /\ drawdownTable # Null =>
         \A i, j \in DOMAIN drawdownTable.rows :
             drawdownTable.rows[i].level < drawdownTable.rows[j].level =>
                 PowLe(drawdownTable.rows[j].probability,
                       drawdownTable.rows[i].probability)
    /\ lossLevels # Null =>
         \A i, j \in DOMAIN lossLevels.results :
             lossLevels.results[i].lossSize < lossLevels.results[j].lossSize =>
                 PowLe(lossLevels.results[j].probability,
                       lossLevels.results[i].probability)

\* the fraction of winning trades and the mean losing trade as a percentage
\* of the balance
WinRateOf(ts) == RDiv(Num(CountSign(ts, 1)), Num(Len(ts)))
AvgLossPctOf(ts, ib) ==
    RMul(RDiv(RAbs(RDiv(Num(GrossLoss(ts)), Num(CountSign(ts, -1)))), Num(ib)),
         Num(100))

\* a reported row against the formula of the claim
RowAsSpecified(level, consecutive, probability, ts, ib) ==
    /\ consecutive = RCeil(RDiv(Num(level), AvgLossPctOf(ts, ib)))
    /\ RGe(consecutive, Num(1))
    /\ PowEq(probability, Pow(RSub(Num(1), WinRateOf(ts)), consecutive))
    /\ ~PowIsNaN(probability)
    /\ RLe(probability.base, Num(1)) \/ probability.exp = Num(0)

\* C13: for every drawdown level and avg_loss_pct > 0, consecutive_losses is
\* ceil(level / avg_loss_pct) and at least 1, and the probability is
\* (1 - win_rate)^consecutive_losses x 100, within [0, 100].
C13_LossesAndProbabilityFormula ==
    (CountSign(trades, -1) > 0 /\ initialBalance > 0) =>
        /\ drawdownTable # Null =>
             \A i \in DOMAIN drawdownTable.rows :
                 LET r == drawdownTable.rows[i]
                 IN  RowAsSpecified(r.level, r.trades, r.probability,
                                    trades, initialBalance)
        /\ lossLevels # Null =>
             \A i \in DOMAIN lossLevels.results :
                 LET r == lossLevels.results[i]
                 IN  RowAsSpecified(r.lossSize, r.consecutiveLosses,
                                    r.probability, trades, initialBalance)

----
(* Calendar period properties *)

InWindow(t, start, end) == start <= t.time /\ t.time < end

CountIn(ts, start, end) ==
    Cardinality({i \in 1..Len(ts) : InWindow(ts[i], start, end)})

Midnight(n) == HoursPerDay * (n \div HoursPerDay)

\* C6: a trade is counted in a window iff start <= exit_time < end; the
\* current window and the one before it are disjoint, so a trade exactly on
\* a boundary (midnight of today) is counted in exactly one of them.
C6_HalfOpenDisjointWindows ==
    periodsData # Null =>
        /\ \A label \in PeriodLabels :
               LET r == periodsData.periods[label]
               IN  /\ r.trades = CountIn(trades, r.start, r.end)
                   /\ r.prevTrades = CountIn(trades, r.prevStart, r.prevEnd)
                   /\ \A i \in 1..Len(trades) :
                          ~(InWindow(trades[i], r.start, r.end)
                            /\ InWindow(trades[i], r.prevStart, r.prevEnd))
        /\ LET r == periodsData.periods["Today"]
           IN  /\ r.trades =
                     CountIn(trades, Midnight(now), Midnight(now) + HoursPerDay)
               /\ r.prevTrades =
                     CountIn(trades, Midnight(now) - HoursPerDay, Midnight(now))

\* a trade closed exactly at midnight of today is in Today and not in the
\* day before
C6_Witness ==
    /\ periodsData # Null
    /\ Len(trades) = 1
    /\ trades[1].time = Midnight(now)
    /\ periodsData.periods["Today"].trades = 1
    /\ periodsData.periods["Today"].prevTrades = 0

\* Monday 00:00 of the week that contains n
MondayOf(n) == HoursPerDay * (DayNumber(n) - ((DayNumber(n) + 5) % 7))

InWeekOf(t, n) == InWindow(t, MondayOf(n), MondayOf(n) + 7 * HoursPerDay)

\* C7: the week figure counts a trade iff its exit_time lies in
\* [Monday 00:00 of the week containing now, that Monday + 7 days).
C7_WeekIsMondayAlignedSevenDays ==
    /\ periodsData # Null =>
         /\ periodsData.periods["This Week"].trades =
                Cardinality({i \in 1..Len(trades) : InWeekOf(trades[i], now)})
         /\ periodsData.periods["This Week"].profit =
                SumProfit(SelectSeq(trades, LAMBDA t : InWeekOf(t, now)))
    /\ profits # Null =>
         profits.weekly = SumProfit(SelectSeq(trades, LAMBDA t : InWeekOf(t, now)))

\* C8: for each of today, week, month and year the comparison window ends
\* exactly where the current window starts and has the same length.
C8_PrecedingWindowSameLength ==
    periodsData # Null =>
        \A label \in PeriodLabels :
            LET r == periodsData.periods[label]
            IN  /\ r.prevEnd = r.start
                /\ r.start - r.prevStart = r.end - r.start

\* C17: for every period and its preceding window, gain_pct is the window's
\* summed net_profit divided by the account's initial_balance, times 100.
C17_GainOverAccountInitialBalance ==
    periodsData # Null =>
        \A label \in PeriodLabels :
            LET r == periodsData.periods[label]
            IN  /\ r.gainPct =
                       RMul(RDiv(Num(r.profit), Num(initialBalance)), Num(100))
                /\ r.prevGainPct =
                       RMul(RDiv(Num(r.prevProfit), Num(initialBalance)),
                            Num(100))

----
(* Ordering properties *)

\* every order in which the same trades can arrive
Permuted(ts) ==
    {[i \in 1..Len(ts) |-> ts[f[i]]] : f \in Permutations(1..Len(ts))}

\* C20: the equity curve, the drawdown and the streaks are computed over the
\* trades in ascending exit_time with a fixed tie-break, so they are the same
\* for every permutation of the input trade list (TradingReport's curve,
\* drawdown and streaks, GrowthChart's curve, RiskOfRuin's longest losing
\* streak).
C20_SameForEveryPermutation ==
    \A p \in Permuted(trades) :
        /\ metrics # Null =>
             LET m == ComputeMetrics(p, initialBalance)
             IN  /\ m.balanceData = metrics.balanceData
                 /\ m.maxDrawdown = metrics.maxDrawdown
                 /\ m.consecutiveWins = metrics.consecutiveWins
                 /\ m.consecutiveLosses = metrics.consecutiveLosses
                 /\ m.maxConsecutiveProfit = metrics.maxConsecutiveProfit
                 /\ m.maxConsecutiveLoss = metrics.maxConsecutiveLoss
        /\ growthData # Null =>
             ComputeGrowthData(p, initialBalance) = growthData.data
        /\ riskData # Null =>
             ComputeRiskData(p).maxConsecutiveLosses
                 = riskData.maxConsecutiveLosses

----
(* Input validation properties *)

\* a record the contract rejects: a non-positive volume, or an entry_time
\* later than the exit
InvalidTrade(t) ==
    \/ t.volume <= 0
    \/ t.entry_time # <<>> /\ t.entry_time[1] > t.time

\* C19: a trade list that contains a trade with volume <= 0, or with an
\* entry_time later than its exit_time, is rejected: no statistics, not even
\* partial ones, are produced from it.
C19_InvalidTradesRejected ==
    (\E i \in 1..Len(trades) : InvalidTrade(trades[i])) =>
        /\ metrics = Null
        /\ additionalMetrics = Null

\* long and short trades per symbol
InitSides ==
    /\ trades \in ListsOver(SideTrades, MaxSideTrades)
    /\ initialBalance = 1000
    /\ timezoneOffset = 0
    /\ now = 0
    /\ NoOutput

NextSides ==
    \/ TradingReportMetrics
    \/ SymbolBreakdownSymbolData

SpecSides == InitSides /\ [][NextSides]_vars

\* the Dashboard loading its data, with the History, Analysis and Report tabs
InitDashboard ==
    /\ trades = <<>>
    /\ initialBalance = 0
    /\ timezoneOffset = 7
    /\ now = 0
    /\ metrics = Null /\ chartData = Null /\ riskData = Null
    /\ dailyData = Null /\ maeMfe = Null /\ duration = Null
    /\ riskMetrics = Null /\ recommendation = Null
    /\ periodsData = Null /\ profits = Null
    /\ growthData = Null /\ drawdownTable = Null
    /\ additionalMetrics = Null /\ lossLevels = Null /\ symbolData = Null
    /\ dashboard = [isConnected |-> FALSE, account |-> Null,
                    loading |-> FALSE, error |-> FALSE,
                    stats |-> Null, periods |-> Null,
                    activeTab |-> "overview",
                    awaiting |-> "none", tradesRes |-> Null]
    /\ tradeHistory = Null
    /\ newsCalendar = Null
    /\ openPositions = Null
    /\ aiSidePanel = Null

NextDashboard ==
    \/ DashboardConnectMT5
    \/ DashboardConnectResolved
    \/ DashboardRefreshData
    \/ DashboardGetTradesResolved
    \/ DashboardCalculateResolved
    \/ DashboardGetPeriodStatsResolved
    \/ DashboardRequestRejected
    \/ DashboardSetActiveTab
    \/ TradeHistorySearch
    \/ TradeHistoryFilter
    \/ TradeHistoryHandleSort
    \/ TradeHistoryPrev
    \/ TradeHistoryNext
    \/ dashboard.activeTab = "report" /\ TradingReportMetrics
    \/ dashboard.activeTab = "analysis" /\ ChartPanelChartData

SpecDashboard == InitDashboard /\ [][NextDashboard]_vars

\* the panels that talk to the server on their own: the Calendar tab or the
\* Positions tab is open, each just mounted with its first request sent, and
\* the AI side panel has created its initial session
InitPanels ==
    /\ trades = <<>>
    /\ initialBalance = 1000
    /\ timezoneOffset = 0
    /\ now = 0
    /\ metrics = Null /\ chartData = Null /\ riskData = Null
    /\ dailyData = Null /\ maeMfe = Null /\ duration = Null
    /\ riskMetrics = Null /\ recommendation = Null
    /\ periodsData = Null /\ profits = Null
    /\ growthData = Null /\ drawdownTable = Null
    /\ additionalMetrics = Null /\ lossLevels = Null /\ symbolData = Null
    /\ dashboard = Null
    /\ tradeHistory = Null
    /\ \E tab \in {"calendar", "positions"} :
           /\ newsCalendar =
                  IF tab = "calendar"
                  THEN [loading |-> TRUE, error |-> FALSE,
                        dataSource |-> "forexfactory", events |-> "none",
                        forexFactory |-> 1, demo |-> 0]
                  ELSE Null
           /\ openPositions =
                  IF tab = "positions"
                  THEN [positions |-> 0, loading |-> TRUE, error |-> FALSE,
                        started |-> 1, outstanding |-> {1}, completed |-> {}]
                  ELSE Null
    /\ aiSidePanel = [sessions |-> <<1>>, activeSessionId |-> 1, created |-> 1]

NextPanels ==
    \/ NewsCalendarFetchForexFactoryEvents
    \/ NewsCalendarForexFactorySettled
    \/ NewsCalendarDemoSettled
    \/ OpenPositionsFetchPositions
    \/ OpenPositionsSettled
    \/ AISidePanelCreateNewSession
    \/ AISidePanelDeleteSession
    \/ AISidePanelSelectSession

SpecPanels == InitPanels /\ [][NextPanels]_vars

----
(* Empty trade list *)

\* C21: for an empty trade list every statistics computation reports zero
\* trades, a zero win rate, a zero profit factor and a zero maximum
\* drawdown.  The memos computed here are TradingReport.metrics (no balance
\* points, maxDrawdown) and AdvancedStats.additionalMetrics (the win
\* percentage profitabilityPct).
C21_EmptyListReportsZeros ==
    trades = <<>> =>
        /\ metrics # Null =>
               /\ Len(metrics.balanceData) = 0
               /\ metrics.maxDrawdown = Num(0)
        /\ additionalMetrics # Null =>
               additionalMetrics.profitabilityPct = Num(0)
----
(* Score and tier *)

RiskTiers == {"conservative", "moderate", "aggressive"}

\* the <<score, tier>> pairs of every non-empty trade list and balance
ScoredTiers ==
    {LET r == Recommend(ComputeRiskMetrics(ts, ib)) IN <<r.riskScore, r.riskLevel>> :
        <<ts, ib>> \in ((TradeLists({0}, NetProfits, MaxTrades) \cup SizingLists)
                           \ {<<>>}) \X Balances}

\* C22: for every risk profile the composite score lies in [0, 100] and
\* fixes one tier out of conservative, moderate and aggressive: any other
\* trade list and balance that scores the same is given the same tier.
C22_ScoreBoundedAndDecidesTier ==
    recommendation # Null =>
        /\ recommendation.riskScore \in 0..100
        /\ recommendation.riskLevel \in RiskTiers
        /\ <<recommendation.riskScore, recommendation.riskLevel>> \in ScoredTiers
        /\ \A other \in ScoredTiers :
               other[1] = recommendation.riskScore
                   => other[2] = recommendation.riskLevel

\* a profile whose adjustments add up to more than 100 has been scored
C22_Witness ==
    /\ recommendation # Null
    /\ RiskScoreUncapped(riskMetrics) > 100
    /\ recommendation.riskScore = 100
    /\ recommendation.riskLevel = "moderate"
----
(* Long and short trades *)

\* C23: the number of long trades plus the number of short trades equals the
\* number of trades, over the whole list (TradingReport) and within each
\* symbol (SymbolBreakdown).
C23_LongPlusShortIsTotal ==
    /\ metrics # Null =>
           Len(metrics.longTrades) + Len(metrics.shortTrades) = Len(trades)
    /\ symbolData # Null =>
           \A i \in 1..Len(symbolData.rows) :
               LET row == symbolData.rows[i]
               IN  /\ row.longTrades + row.shortTrades = row.totalTrades
                   /\ row.totalTrades =
                          Len(SelectSeq(trades, LAMBDA t : t.symbol = row.symbol))

\* both memos computed for a list that has long and short trades in two
\* symbols
C23_Witness ==
    /\ metrics # Null
    /\ symbolData # Null
    /\ Len(symbolData.rows) = 2
    /\ Len(metrics.longTrades) > 0
    /\ Len(metrics.shortTrades) > 0
    /\ \E i \in 1..2 : symbolData.rows[i].longTrades > 0
                          /\ symbolData.rows[i].shortTrades > 0
----
(* The trades prop *)

\* C24: no analytics computation modifies the trade list it is given.  The
\* list changes only when the Dashboard stores a newly fetched one; every
\* other step (a render of TradeHistory after a search, filter, sort or page
\* change or on its mount, the memo of TradingReport, the memo of ChartPanel
\* with its time zone shift) leaves the same trades in the same order with
\* the same field values.
C24_ComputationsLeaveTradesAlone ==
    [][(dashboard.awaiting = "trades" /\ dashboard'.awaiting # "trades")
          \/ trades' = trades]_vars

\* TradeHistory shows every trade of a long list in another order than the
\* list has, and the list is still as it was fetched
C24_Witness ==
    /\ tradeHistory # Null
    /\ trades = FetchedList(LongList)
    /\ Len(tradeHistory.filteredTrades) = Len(trades)
    /\ tradeHistory.filteredTrades # trades
----
(* Dashboard data loading *)

\* C25: whenever refreshData or connectMT5 has completed without error
\* (connected, not loading, no error), the stats and the period statistics
\* on display are those computed from the trade list on display, also when
\* the list that was fetched is empty.
C25_StatsDescribeDisplayedTrades ==
    (dashboard # Null /\ dashboard.isConnected
        /\ ~dashboard.loading /\ ~dashboard.error) =>
        /\ dashboard.stats # Null => dashboard.stats.calculatedFrom = trades
        /\ dashboard.periods # Null => dashboard.periods.calculatedFrom = trades

----
(* TradeHistory pagination *)

\* C26: after any sequence of search edits, filter changes, sort changes,
\* Prev/Next clicks and replacements of the trades prop, the current page is
\* between 1 and max(1, pageCount), so that a non-empty filtered list never
\* renders an empty page.
C26_PageWithinPageCount ==
    tradeHistory # Null =>
        /\ 1 <= tradeHistory.page
        /\ tradeHistory.page <= (IF PageCount(tradeHistory) > 1
                                 THEN PageCount(tradeHistory) ELSE 1)
        /\ Len(tradeHistory.filteredTrades) > 0
               => Len(PaginatedTrades(tradeHistory)) > 0
----
(* The panels *)

\* C27: in NewsCalendar the loading flag is true at every moment at least
\* one news request is outstanding; in particular it stays true after a
\* failed ForexFactory fetch until the demo fallback request has completed.
C27_LoadingWhileRequestOutstanding ==
    (newsCalendar # Null /\ newsCalendar.forexFactory + newsCalendar.demo > 0)
        => newsCalendar.loading

\* the greatest element of a non-empty set of numbers
Latest(S) == CHOOSE x \in S : \A y \in S : y <= x

\* C28: in OpenPositions the positions on display are those returned by the
\* most recently started fetch that has completed; the response to an
\* earlier request never overwrites the result of a later one.
C28_LatestCompletedFetchDisplayed ==
    (openPositions # Null /\ openPositions.completed # {})
        => openPositions.positions = Latest(openPositions.completed)

\* C30: in AISidePanel, after any sequence of createNewSession,
\* deleteSession and session selection, activeSessionId is null or the id of
\* a session that is in the sessions list.
C30_ActiveSessionExists ==
    aiSidePanel # Null =>
        \/ aiSidePanel.activeSessionId = 0
        \/ \E i \in 1..Len(aiSidePanel.sessions) :
               aiSidePanel.sessions[i] = aiSidePanel.activeSessionId

----
(* Position sizing *)

\* C29: for every non-empty trade list the recommended risk percentage of
\* RiskModel is never negative, in every score band.
C29_RecommendedPctNotNegative ==
    (recommendation # Null /\ Len(trades) > 0)
        => RGe(recommendation.recommendedPct, Num(0))
====
